---------------------------- MODULE Spec2Model ----------------------------
(***************************************************************************)
(* A model of gpflow/kernels.py: kernel construction (Kern.__init__,       *)
(* Combination.__init__, make_kernel_names), dimension slicing             *)
(* (Kern._slice), kernel evaluation (K / Kdiag of the concrete kernels and *)
(* of Add / Prod), the quadrature gate (_check_quadrature and the four     *)
(* expectation operations) and the two differential-observation kernels.   *)
(*                                                                         *)
(* Numbers.  Inputs and parameters are integers.  A kernel value is an     *)
(* element of Z[q], q = exp(-1/2): the sequence <<c0, c1, ..., cn>> is     *)
(* c0 + c1*q + ... + cn*q^n, without trailing zeros (<<>> is 0).  White,   *)
(* Constant, Linear, Polynomial and Coregion give constants <<c>>; RBF     *)
(* with lengthscale 1 gives variance * q^(r2), PeriodicKernel with period  *)
(* 2 variance * q^(number of odd differences).  The powers of q are        *)
(* linearly independent over the integers, so two values are equal as      *)
(* sequences exactly when they are equal as real numbers.  The values of   *)
(* Exponential, Matern12, Matern32, Matern52, Cosine and ArcCosine are     *)
(* kept as terms (see KEntry); these kernels are evaluated on their own.   *)
(*                                                                         *)
(* Python's None for an optional matrix is the empty sequence; a slice     *)
(* object is a record that has only the fields that are not None.          *)
(***************************************************************************)
EXTENDS Integers, Sequences, FiniteSets, TLC

VARIABLES
  kern,     \* the kernel object under construction / evaluation
  X,        \* first input matrix of the last call (rows of integers)
  X2,       \* second input matrix of the last call, or None
  op,       \* name of the last operation performed
  out,      \* its result: [val |-> v] or [err |-> e]
  device,   \* where tf.gather runs: "cpu" or "gpu"
  stack,    \* kernels built so far by the construction script
  quadrature, \* settings.numerics.ekern_quadrature
  log,      \* warnings and steps of the last expectation call, in order
  Xcov      \* covariance argument of the last expectation call: [rank, t]

vars == <<kern, X, X2, op, out, device, stack, quadrature, log, Xcov>>

---------------------------------------------------------------------------
(* Bounds of the model. *)
MaxRows == 2     \* rows of an input matrix
MaxLeaves == 4   \* leaf kernels in one construction script

None == <<>>
Ok(v) == [val |-> v]
Err(e) == [err |-> e]
IsErr(r) == "err" \in DOMAIN r
IsOk(r) == "val" \in DOMAIN r

Max(a, b) == IF a >= b THEN a ELSE b
Min(a, b) == IF a <= b THEN a ELSE b

RECURSIVE SumSeq(_)
SumSeq(s) == IF s = <<>> THEN 0 ELSE s[1] + SumSeq(Tail(s))

RECURSIVE IntPow(_, _)
IntPow(b, e) == IF e = 0 THEN 1 ELSE b * IntPow(b, e - 1)

RECURSIVE MaxSeq(_)
\* np.max of a non-empty list
MaxSeq(s) == IF Len(s) = 1 THEN s[1] ELSE Max(s[1], MaxSeq(Tail(s)))

---------------------------------------------------------------------------
(* Kernel values: Z[q], q = exp(-1/2). *)

RECURSIVE VTrim(_)
VTrim(p) == IF p = <<>> THEN <<>>
            ELSE IF p[Len(p)] = 0 THEN VTrim(SubSeq(p, 1, Len(p) - 1))
            ELSE p

VCoef(p, i) == IF i <= Len(p) THEN p[i] ELSE 0
VInt(n) == IF n = 0 THEN <<>> ELSE <<n>>
\* n * exp(-e/2)
VExp(n, e) == IF n = 0 THEN <<>> ELSE [i \in 1..(e + 1) |-> IF i = e + 1 THEN n ELSE 0]
VAdd(p, r) == VTrim([i \in 1..Max(Len(p), Len(r)) |-> VCoef(p, i) + VCoef(r, i)])
VMul(p, r) ==
  IF p = <<>> \/ r = <<>> THEN <<>>
  ELSE VTrim([k \in 1..(Len(p) + Len(r) - 1) |->
               SumSeq([i \in 1..Len(p) |->
                         IF k - i + 1 >= 1 /\ k - i + 1 <= Len(r)
                         THEN p[i] * r[k - i + 1] ELSE 0])])
VScale(n, p) == VMul(VInt(n), p)

RECURSIVE VPow(_, _)
VPow(p, d) == IF d = 0 THEN <<1>> ELSE VMul(p, VPow(p, d - 1))

---------------------------------------------------------------------------
(* Matrices: sequences of rows. *)

NRows(M) == Len(M)
NCols(M) == IF M = <<>> THEN 0 ELSE Len(M[1])
\* the columns idx (0-based, in that order) of M
TakeCols(M, idx) == [n \in 1..Len(M) |-> [a \in 1..Len(idx) |-> M[n][idx[a] + 1]]]
DiagPart(M) == [n \in 1..Len(M) |-> M[n][n]]
MatAdd(A, B) == [n \in 1..Len(A) |-> [m \in 1..Len(A[n]) |-> VAdd(A[n][m], B[n][m])]]
MatMul(A, B) == [n \in 1..Len(A) |-> [m \in 1..Len(A[n]) |-> VMul(A[n][m], B[n][m])]]
VecAdd(a, b) == [n \in 1..Len(a) |-> VAdd(a[n], b[n])]
VecMul(a, b) == [n \in 1..Len(a) |-> VMul(a[n], b[n])]
\* the inner product of two integer rows, weighted
Dot(x, y, w) == SumSeq([c \in 1..Len(x) |-> w * x[c] * y[c]])

---------------------------------------------------------------------------
(* Kern.__init__ and Kern._slice. *)

\* The active_dims argument of a constructor: NoDims is Python's None,
\* [slice |-> s] a slice object (s has the fields start, stop, step that are
\* not None), [dims |-> <<...>>] an explicit list of column indices.
NoDims == [none |-> TRUE]
IsSlice(ad) == "slice" \in DOMAIN ad

\* The quadrature point count every kernel starts with.
DefaultGaussHermitePoints == 20

\* Python's slice.indices on an axis of length D (start, stop >= 0, step > 0):
\* the selected positions, in order.
SliceIndices(sl, D) ==
  LET start == IF "start" \in DOMAIN sl THEN Min(sl.start, D) ELSE 0
      stop  == IF "stop" \in DOMAIN sl THEN Min(sl.stop, D) ELSE D
      step  == IF "step" \in DOMAIN sl THEN sl.step ELSE 1
      n     == IF stop > start THEN (stop - start + step - 1) \div step ELSE 0
  IN [a \in 1..n |-> start + (a - 1) * step]

\* Kern.__init__(input_dim, active_dims): the fields of the base class, or
\* the exception the constructor raises.
Kern__init__(input_dim, active_dims) ==
  LET self == [input_dim |-> input_dim,
               num_gauss_hermite_points |-> DefaultGaussHermitePoints]
  IN IF "none" \in DOMAIN active_dims
     THEN Ok(self @@ [active_dims |-> [slice |-> [stop |-> input_dim]]])
     ELSE IF IsSlice(active_dims)
     THEN IF DOMAIN active_dims.slice = {"start", "stop", "step"}
          \* len(range(*active_dims)): a slice object cannot be unpacked
          THEN Err("TypeError")
          ELSE Ok(self @@ [active_dims |-> active_dims])
     ELSE IF Len(active_dims.dims) = input_dim
          THEN Ok(self @@ [active_dims |-> active_dims])
          ELSE Err("AssertionError")

\* tf.transpose(tf.gather(tf.transpose(M), dims)): an index outside the
\* columns of M is an error on a CPU and reads as 0 on a GPU.
GatherCols(M, dims) ==
  IF \E a \in 1..Len(dims) : dims[a] < 0 \/ dims[a] >= NCols(M)
  THEN IF device = "cpu" THEN Err("GatherError")
       ELSE Ok([n \in 1..Len(M) |-> [a \in 1..Len(dims) |->
                  IF dims[a] < 0 \/ dims[a] >= NCols(M) THEN 0
                  ELSE M[n][dims[a] + 1]]])
  ELSE Ok(TakeCols(M, dims))

\* One operand of _slice: M[:, active_dims] or the gather; None stays None.
SliceOne(self, M) ==
  IF M = None THEN Ok(None)
  ELSE IF IsSlice(self.active_dims)
  THEN Ok(TakeCols(M, SliceIndices(self.active_dims.slice, NCols(M))))
  ELSE GatherCols(M, self.active_dims.dims)

\* Kern._slice(X, X2): the pair <<X, X2>> sliced, or the error.  Only the
\* column count of X is asserted.
Slice(self, x, x2) ==
  LET sx  == SliceOne(self, x)
      sx2 == SliceOne(self, x2)
  IN IF IsErr(sx) THEN sx
     ELSE IF IsErr(sx2) THEN sx2
     ELSE IF NCols(sx.val) # self.input_dim THEN Err("ShapeError")
     ELSE Ok(<<sx.val, sx2.val>>)

\* A covariance argument: [rank |-> 3, t |-> N x D x D] or, for diagonal
\* covariances, [rank |-> 2, t |-> N x D].  Its entries are tuples; the
\* empty tuple is the entry 0.
Zero == <<>>

\* no covariance argument: no expectation was called
NoCov == [rank |-> 0, t |-> <<>>]

\* tf.matrix_diag on an N x D tensor
MatrixDiag(t) ==
  [n \in 1..Len(t) |-> [a \in 1..Len(t[n]) |-> [b \in 1..Len(t[n]) |->
     IF a = b THEN t[n][a] ELSE Zero]]]

\* tf.transpose(t, perm) of a 3-dimensional tensor: axis k of the result is
\* axis perm[k] of t (perm is 0-based)
Transpose3(t, perm) ==
  LET shape == <<Len(t), Len(t[1]), Len(t[1][1])>>
      At(i) == t[i[1]][i[2]][i[3]]
  IN [i0 \in 1..shape[perm[1] + 1] |-> [i1 \in 1..shape[perm[2] + 1] |->
        [i2 \in 1..shape[perm[3] + 1] |->
           At([k \in 1..3 |-> IF perm[1] + 1 = k THEN i0
                              ELSE IF perm[2] + 1 = k THEN i1 ELSE i2])]]]

\* tf.gather(t, dims) along the first axis of a 3-dimensional tensor: an
\* index outside the axis is an error on a CPU and reads as zeros on a GPU
Gather3(t, dims) ==
  IF \E a \in 1..Len(dims) : dims[a] < 0 \/ dims[a] >= Len(t)
  THEN IF device = "cpu" THEN Err("GatherError")
       ELSE Ok([a \in 1..Len(dims) |->
                  IF dims[a] < 0 \/ dims[a] >= Len(t)
                  THEN [r \in 1..Len(t[1]) |-> [c \in 1..Len(t[1][1]) |-> Zero]]
                  ELSE t[dims[a] + 1]])
  ELSE Ok([a \in 1..Len(dims) |-> t[dims[a] + 1]])

\* tf.transpose of the result of a gather
Transposed(r, perm) == IF IsErr(r) THEN r ELSE Ok(Transpose3(r.val, perm))

\* the second gather of _slice_cov and the transpose back, on the result of
\* the first
SliceCovSecond(gather1, dims) ==
  IF IsErr(gather1) THEN gather1
  ELSE Transposed(Gather3(Transpose3(gather1.val, <<1, 0, 2>>), dims), <<2, 0, 1>>)

\* the active columns taken, every row kept
SliceCovColumnsOnly(self, cov) ==
  LET full == IF cov.rank = 2 THEN MatrixDiag(cov.t) ELSE cov.t
      D    == Len(full[1])
      idx  == IF IsSlice(self.active_dims) THEN SliceIndices(self.active_dims.slice, D)
              ELSE self.active_dims.dims
  IN IF \E a \in 1..Len(idx) : idx[a] >= D THEN Err("GatherError")
     ELSE Ok([n \in 1..Len(full) |-> [a \in 1..D |-> [b \in 1..Len(idx) |->
                full[n][a][idx[b] + 1]]]])

\* Kern._slice_cov(cov): N x input_dim x input_dim, or the error
SliceCov(self, cov) ==
  LET full == IF cov.rank = 2 THEN MatrixDiag(cov.t) ELSE cov.t
      D    == Len(full[1])
      idx  == SliceIndices(self.active_dims.slice, D)
  IN IF IsSlice(self.active_dims)
     THEN Ok([n \in 1..Len(full) |-> [a \in 1..Len(idx) |-> [b \in 1..Len(idx) |->
                full[n][idx[a] + 1][idx[b] + 1]]]])
     ELSE SliceCovSecond(Gather3(Transpose3(full, <<2, 1, 0>>), self.active_dims.dims),
                         self.active_dims.dims)

---------------------------------------------------------------------------
(* Constructors of the concrete kernels. *)

\* A leaf kernel of class cls: Kern.__init__ and then the parameters.
Leaf(cls, input_dim, active_dims, params) ==
  LET base == Kern__init__(input_dim, active_dims)
  IN IF IsErr(base) THEN base ELSE Ok(base.val @@ params @@ [cls |-> cls])

White(input_dim, variance, active_dims) ==
  Leaf("White", input_dim, active_dims, [variance |-> variance])
Constant(input_dim, variance, active_dims) ==
  Leaf("Constant", input_dim, active_dims, [variance |-> variance])
Bias(input_dim, variance, active_dims) ==
  Leaf("Bias", input_dim, active_dims, [variance |-> variance])
\* lengthscales keeps its default 1.0, ARD is off
RBF(input_dim, variance, active_dims) ==
  Leaf("RBF", input_dim, active_dims, [variance |-> variance])
Linear(input_dim, variance, active_dims) ==
  Leaf("Linear", input_dim, active_dims, [variance |-> variance])
Polynomial(input_dim, degree, variance, offset, active_dims) ==
  Leaf("Polynomial", input_dim, active_dims,
       [variance |-> variance, degree |-> degree, offset |-> offset])
\* W and kappa are the current parameter readings (W is output_dim x rank)
\* Exponential, Matern12, Matern32, Matern52 and Cosine have the constructor
\* of Stationary; the lengthscales keep their default, 1
Stationary(cls, input_dim, variance, active_dims) ==
  Leaf(cls, input_dim, active_dims, [variance |-> variance])

\* Kern.__init__ runs before the order is looked at; weight_variances is one
\* number (ARD = False)
ArcCosine(input_dim, order, variance, weight_variances, bias_variance, active_dims) ==
  LET made == Leaf("ArcCosine", input_dim, active_dims,
                   [order |-> order, variance |-> variance,
                    weight_variances |-> weight_variances,
                    bias_variance |-> bias_variance])
  IN IF IsErr(made) THEN made
     ELSE IF order \notin {0, 1, 2} THEN Err("ValueError")
     ELSE made

PeriodicKernel(input_dim, period, variance, active_dims) ==
  Leaf("PeriodicKernel", input_dim, active_dims, [period |-> period, variance |-> variance])

Coregion(input_dim, W, kappa, active_dims) ==
  IF input_dim # 1 THEN Err("AssertionError")
  ELSE Leaf("Coregion", input_dim, active_dims,
            [output_dim |-> Len(W), rank |-> Len(W[1]), W |-> W, kappa |-> kappa])

IsCombination(k) == k.cls \in {"Add", "Prod"}

\* k.__class__.__name__.lower()
RawName(k) ==
  CASE k.cls = "White" -> "white"
    [] k.cls = "Constant" -> "constant"
    [] k.cls = "Bias" -> "bias"
    [] k.cls = "RBF" -> "rbf"
    [] k.cls = "Linear" -> "linear"
    [] k.cls = "Polynomial" -> "polynomial"
    [] k.cls = "Coregion" -> "coregion"
    [] k.cls = "Add" -> "add"
    [] k.cls = "Prod" -> "prod"
    [] k.cls = "DifferentialObservationsKernelPreDefined"
         -> "differentialobservationskernelpredefined"
    [] k.cls = "DifferentialObservationsKernelDynamic"
         -> "differentialobservationskerneldynamic"

\* names.index(raw): the first position holding raw
IndexOf(names, raw) ==
  CHOOSE i \in 1..Len(names) :
    names[i] = raw /\ \A j \in 1..(i - 1) : names[j] # raw

\* The loop body without the retroactive rename of the first occurrence
NameStepNoRename(st, k) ==
  LET raw == RawName(k)
  IN IF raw \in DOMAIN st.counting_dict
     THEN LET count == st.counting_dict[raw] + 1
          IN [names |-> Append(st.names, raw \o "_" \o ToString(count)),
              counting_dict |-> [st.counting_dict EXCEPT ![raw] = count]]
     ELSE [names |-> Append(st.names, raw),
           counting_dict |-> st.counting_dict @@ (raw :> 1)]

\* One iteration of the loop of make_kernel_names.
NameStep(st, k) ==
  LET raw == RawName(k)
  IN IF raw \in DOMAIN st.counting_dict
     THEN LET renamed == IF st.counting_dict[raw] = 1
                         THEN [st.names EXCEPT ![IndexOf(st.names, raw)] = raw \o "_1"]
                         ELSE st.names
              count == st.counting_dict[raw] + 1
          IN [names |-> Append(renamed, raw \o "_" \o ToString(count)),
              counting_dict |-> [st.counting_dict EXCEPT ![raw] = count]]
     ELSE [names |-> Append(st.names, raw),
           counting_dict |-> st.counting_dict @@ (raw :> 1)]

RECURSIVE NameLoop(_, _)
NameLoop(st, kern_list) ==
  IF kern_list = <<>> THEN st
  ELSE NameLoop(NameStep(st, kern_list[1]), Tail(kern_list))

make_kernel_names(kern_list) ==
  NameLoop([names |-> <<>>, counting_dict |-> [r \in {} |-> 0]], kern_list).names

\* A child counted by its own input_dim whatever its active_dims
DimContributionOwn(k) == k.input_dim

\* What one child adds to the inferred input_dim of a combination.
DimContribution(k) ==
  IF IsSlice(k.active_dims) THEN k.input_dim
  ELSE MaxSeq(k.active_dims.dims) + 1

InferInputDim(kern_list) ==
  MaxSeq([i \in 1..Len(kern_list) |-> DimContribution(kern_list[i])])

\* A child list taken as given, nested combinations kept
FlattenNothing(cls, kern_list) == kern_list

RECURSIVE Flatten(_, _)
\* the loop that fills self.kern_list for a combination of class cls
Flatten(cls, kern_list) ==
  IF kern_list = <<>> THEN <<>>
  ELSE (IF kern_list[1].cls = cls THEN kern_list[1].kern_list
        ELSE <<kern_list[1]>>) \o Flatten(cls, Tail(kern_list))

\* Combination.__init__ for cls = "Add" or "Prod"; kern_list is not empty.
Combination(cls, kern_list) ==
  LET base == Kern__init__(InferInputDim(kern_list), NoDims)
      flat == Flatten(cls, kern_list)
  IN Ok(base.val @@ [cls |-> cls, kern_list |-> flat,
                     names |-> make_kernel_names(flat)])

Add(kern_list) == Combination("Add", kern_list)
Prod(kern_list) == Combination("Prod", kern_list)
\* Kern.__add__ and Kern.__mul__
Plus(self, other) == Add(<<self, other>>)
Times(self, other) == Prod(<<self, other>>)

\* only neighbouring children compared
on_separate_dimensions_neighbours(self) ==
  IF \E i \in 1..Len(self.kern_list) : IsSlice(self.kern_list[i].active_dims)
  THEN FALSE
  ELSE ~\E i \in 1..(Len(self.kern_list) - 1) :
          \E a \in 1..Len(self.kern_list[i].active_dims.dims) :
          \E b \in 1..Len(self.kern_list[i + 1].active_dims.dims) :
            self.kern_list[i].active_dims.dims[a] = self.kern_list[i + 1].active_dims.dims[b]

\* Combination.on_separate_dimensions
on_separate_dimensions(self) ==
  IF \E i \in 1..Len(self.kern_list) : IsSlice(self.kern_list[i].active_dims)
  THEN FALSE
  ELSE LET dimlist == [i \in 1..Len(self.kern_list) |-> self.kern_list[i].active_dims.dims]
           overlapping ==
             \E i \in 1..Len(dimlist) : \E j \in (i + 1)..Len(dimlist) :
               \E a \in 1..Len(dimlist[i]) : \E b \in 1..Len(dimlist[j]) :
                 dimlist[i][a] = dimlist[j][b]
       IN ~overlapping

---------------------------------------------------------------------------
(* K and Kdiag of the concrete kernels. *)

\* The presliced keyword of a call: "omitted", "True" or "False".
Presliced == {"omitted", "True", "False"}

\* if not presliced: X, X2 = self._slice(X, X2)
Sliced(self, x, x2, presliced) ==
  IF presliced = "True" THEN Ok(<<x, x2>>) ELSE Slice(self, x, x2)

\* The second operand of a formula: X2, or X when X2 is None.
Right(x, x2) == IF x2 = None THEN x ELSE x2

\* the squared norm of the second point added twice
SquareDistSkewed(x, y) == (0 - 2) * Dot(x, y, 1) + Dot(x, x, 1) + 2 * Dot(y, y, 1)

\* Stationary.square_dist with lengthscales = 1: entry (n, m)
SquareDist(x, y) == (0 - 2) * Dot(x, y, 1) + Dot(x, x, 1) + Dot(y, y, 1)

\* W W^T alone
CoregionBNoKappa(self) ==
  [o \in 1..self.output_dim |-> [u \in 1..self.output_dim |->
     SumSeq([r \in 1..self.rank |-> self.W[o][r] * self.W[u][r]])]]

\* the dense matrix B of a Coregion kernel, and its diagonal as Kdiag sums it
CoregionB(self) ==
  [o \in 1..self.output_dim |-> [u \in 1..self.output_dim |->
     SumSeq([r \in 1..self.rank |-> self.W[o][r] * self.W[u][r]])
       + (IF o = u THEN self.kappa[o] ELSE 0)]]
CoregionBdiag(self) ==
  [o \in 1..self.output_dim |->
     SumSeq([r \in 1..self.rank |-> self.W[o][r] * self.W[o][r]]) + self.kappa[o]]

WhiteK(self, x, x2) ==
  IF x2 = None
  THEN Ok([n \in 1..Len(x) |-> [m \in 1..Len(x) |->
             IF n = m THEN VInt(self.variance) ELSE VInt(0)]])
  ELSE Ok([n \in 1..Len(x) |-> [m \in 1..Len(x2) |-> VInt(0)]])

ConstantK(self, x, x2) ==
  Ok([n \in 1..Len(x) |-> [m \in 1..Len(Right(x, x2)) |-> VInt(self.variance)]])

\* Static.Kdiag(self, X) takes no presliced argument
StaticKdiag(self, x, presliced) ==
  IF presliced # "omitted" THEN Err("TypeError")
  ELSE Ok([n \in 1..Len(x) |-> VInt(self.variance)])

StationaryKdiag(self, x) == Ok([n \in 1..Len(x) |-> VInt(self.variance)])

\* a matmul of X with the transpose of X2 needs equal column counts
RBFK(self, x, x2, presliced) ==
  LET s == Sliced(self, x, x2, presliced)
  IN IF IsErr(s) THEN s
     ELSE LET a == s.val[1]
              b == Right(s.val[1], s.val[2])
          IN IF NCols(a) # NCols(b) THEN Err("MatmulError")
             ELSE Ok([n \in 1..Len(a) |-> [m \in 1..Len(b) |->
                        VExp(self.variance, SquareDist(a[n], b[m]))]])

LinearK(self, x, x2, presliced) ==
  LET s == Sliced(self, x, x2, presliced)
  IN IF IsErr(s) THEN s
     ELSE LET a == s.val[1]
              b == Right(s.val[1], s.val[2])
          IN IF NCols(a) # NCols(b) THEN Err("MatmulError")
             ELSE Ok([n \in 1..Len(a) |-> [m \in 1..Len(b) |->
                        VInt(Dot(a[n], b[m], self.variance))]])

\* Linear.Kdiag with the variance left out of the sum
LinearKdiagNoVariance(self, x, presliced) ==
  LET s == Sliced(self, x, None, presliced)
  IN IF IsErr(s) THEN s
     ELSE Ok([n \in 1..Len(x) |-> VInt(Dot(s.val[1][n], s.val[1][n], 1))])

LinearKdiag(self, x, presliced) ==
  LET s == Sliced(self, x, None, presliced)
  IN IF IsErr(s) THEN s
     ELSE Ok([n \in 1..Len(x) |-> VInt(Dot(s.val[1][n], s.val[1][n], self.variance))])

PolynomialK(self, x, x2, presliced) ==
  LET lin == LinearK(self, x, x2, presliced)
  IN IF IsErr(lin) THEN lin
     ELSE Ok([n \in 1..Len(lin.val) |-> [m \in 1..Len(lin.val[n]) |->
                VPow(VAdd(lin.val[n][m], VInt(self.offset)), self.degree)]])

PolynomialKdiag(self, x, presliced) ==
  LET lin == LinearKdiag(self, x, presliced)
  IN IF IsErr(lin) THEN lin
     ELSE Ok([n \in 1..Len(lin.val) |->
                VPow(VAdd(lin.val[n], VInt(self.offset)), self.degree)])

\* tf.gather on the rows of B and of its diagonal: a category outside
\* 0..output_dim-1 is an error on a CPU and reads as 0 on a GPU
CategoriesOk(self, cats) == \A n \in 1..Len(cats) : cats[n] >= 0 /\ cats[n] < self.output_dim

CoregionK(self, x, x2, presliced) ==
  IF presliced # "omitted" THEN Err("TypeError")
  ELSE LET s == Slice(self, x, x2)
       IN IF IsErr(s) THEN s
          ELSE IF NCols(Right(s.val[1], s.val[2])) = 0 THEN Err("SliceIndexError")
          ELSE LET a == [n \in 1..Len(s.val[1]) |-> s.val[1][n][1]]
                   b == IF s.val[2] = None THEN a
                        ELSE [m \in 1..Len(s.val[2]) |-> s.val[2][m][1]]
                   B == CoregionB(self)
               IN IF ~(CategoriesOk(self, a) /\ CategoriesOk(self, b)) /\ device = "cpu"
                  THEN Err("GatherError")
                  ELSE Ok([n \in 1..Len(a) |-> [m \in 1..Len(b) |->
                             IF CategoriesOk(self, <<a[n], b[m]>>)
                             THEN VInt(B[b[m] + 1][a[n] + 1]) ELSE VInt(0)]])

CoregionKdiag(self, x, presliced) ==
  IF presliced # "omitted" THEN Err("TypeError")
  ELSE LET s == Slice(self, x, None)
       IN IF IsErr(s) THEN s
          ELSE LET a == [n \in 1..Len(s.val[1]) |-> s.val[1][n][1]]
               IN IF ~CategoriesOk(self, a) /\ device = "cpu" THEN Err("GatherError")
                  ELSE Ok([n \in 1..Len(a) |->
                             IF CategoriesOk(self, <<a[n]>>)
                             THEN VInt(CoregionBdiag(self)[a[n] + 1]) ELSE VInt(0)])

---------------------------------------------------------------------------
(* The kernels of the Euclidean distance and ArcCosine.  Their values are   *)
(* not polynomials in exp(-1/2); an entry is kept as the term               *)
(*   [fn, variance, arg, jitter]                                            *)
(* that the code computes: fn names the formula, arg holds its integer      *)
(* arguments, and jitter is 1 when the formula is evaluated with the jitter *)
(* of the code in place (1e-12 under the square root of euclid_dist, 1e-15  *)
(* inside the arc cosine) and 0 when it is evaluated without.  A term whose *)
(* value is an integer is written Number(n), so that equal values have      *)
(* equal terms.  The variance is positive.                                  *)

Number(n) == [fn |-> "number", variance |-> n, arg |-> <<>>, jitter |-> 0]

\* variance * f(sqrt(r2 + jitter)) for the f of the class fn; f(0) = 1 for
\* exp(-r/2), exp(-r), (1 + a r) exp(-a r), (1 + a r + a^2 r^2 / 3) exp(-a r)
\* and cos(r)
Radial(fn, variance, r2, jitter) ==
  IF r2 = 0 /\ jitter = 0 THEN Number(variance)
  ELSE [fn |-> fn, variance |-> variance, arg |-> <<r2>>, jitter |-> jitter]

\* Stationary.euclid_dist: sqrt(r2 + 1e-12), entry (n, m); the pair of r2
\* and the jitter
EuclidDistNoJitter(x, y) == [r2 |-> SquareDist(x, y), jitter |-> 0]
EuclidDist(x, y) == [r2 |-> SquareDist(x, y), jitter |-> 1]

\* ArcCosine._weighted_product for one pair of rows
WeightedProduct(self, x, y) == Dot(x, y, self.weight_variances) + self.bias_variance

\* J(0) / pi: 1 for the orders 0 and 1, 3 for the order 2
JAtZero(order) == IF order = 2 THEN 3 ELSE 1

\* variance / pi * J(theta) * (xx * yy)^(order / 2), where
\* theta = acos(jitter + (1 - 2 jitter) * num / sqrt(xx * yy)); without the
\* jitter theta is 0 when num^2 = xx * yy, num > 0
ArcTerm(variance, order, num, xxyy, jitter) ==
  IF jitter = 0 /\ num > 0 /\ num * num = xxyy
  THEN Number(variance * JAtZero(order) * IntPow(num, order))
  ELSE [fn |-> "ArcCosine", variance |-> variance, arg |-> <<order, num, xxyy>>,
        jitter |-> jitter]

\* sin(pi d / period)^2 for an integer d and the period 1 or 2: 0 at the
\* multiples of the period, 1 at the odd multiples of half the period 2
SinSquare(d, period) == IF d % period = 0 THEN 0 ELSE 1

\* The entry of K for the rows x of X and y of X2, both sliced:
\*   ArcCosine       variance / pi * J(theta) * |x|^order * |y|^order
\*   PeriodicKernel  variance * exp(-1/2 * sum of sin(pi (x - y) / period)^2),
\*                   lengthscales = 1, a single column broadcast
\*   Exponential, Matern12, Matern32, Matern52, Cosine
\*                   variance * f(euclid_dist(x, y)) for the f of the class
KEntry(self, x, y) ==
  CASE self.cls = "ArcCosine" ->
         ArcTerm(self.variance, self.order, WeightedProduct(self, x, y),
                 WeightedProduct(self, x, x) * WeightedProduct(self, y, y), 1)
    [] self.cls = "PeriodicKernel" ->
         VExp(self.variance,
              SumSeq([c \in 1..Max(Len(x), Len(y)) |->
                        SinSquare(x[Min(c, Len(x))] - y[Min(c, Len(y))], self.period)]))
    [] OTHER ->
         Radial(self.cls, self.variance, EuclidDist(x, y).r2, EuclidDist(x, y).jitter)

\* the matrix of the entries for the sliced a and b; the matmul of
\* square_dist and of _weighted_product needs equal column counts, the
\* difference f - f2 of PeriodicKernel equal counts or a single column
KMatrix(self, a, b) ==
  IF NCols(a) = NCols(b) \/ (self.cls = "PeriodicKernel" /\ 1 \in {NCols(a), NCols(b)})
  THEN Ok([n \in 1..Len(a) |-> [m \in 1..Len(b) |-> KEntry(self, a[n], b[m])]])
  ELSE Err(IF self.cls = "PeriodicKernel" THEN "BroadcastError" ELSE "MatmulError")

\* K on the result s of the slicing; X2 = X when X2 is None
KOnSliced(self, s) ==
  IF IsErr(s) THEN s ELSE KMatrix(self, s.val[1], Right(s.val[1], s.val[2]))

\* K of Exponential, Matern12, Matern32, Matern52 and Cosine
EuclidK(self, x, x2, presliced) == KOnSliced(self, Sliced(self, x, x2, presliced))

\* Stationary.Kdiag of these classes: tf.fill with the variance
EuclidKdiag(self, x) == Ok([n \in 1..Len(x) |-> Number(self.variance)])

ArcCosineK(self, x, x2, presliced) == KOnSliced(self, Sliced(self, x, x2, presliced))

\* ArcCosine.Kdiag on the result s of the slicing: theta is the constant 0
ArcCosineKdiagOnSliced(self, s) ==
  IF IsErr(s) THEN s
  ELSE Ok([n \in 1..Len(s.val[1]) |->
             Number(self.variance * JAtZero(self.order)
                      * IntPow(WeightedProduct(self, s.val[1][n], s.val[1][n]), self.order))])

ArcCosineKdiag(self, x, presliced) ==
  ArcCosineKdiagOnSliced(self, Sliced(self, x, None, presliced))

PeriodicK(self, x, x2, presliced) == KOnSliced(self, Sliced(self, x, x2, presliced))

---------------------------------------------------------------------------
(* Add and Prod: functools.reduce over the list of the children's results. *)

\* The exception that ends the call when some result is a failure.  The
\* list is built child by child while the graph is constructed: a TypeError
\* of Python (a presliced argument that is not taken, None[i, d]) is raised
\* there, before anything is evaluated; the other failures are met when the
\* graph is run, the first one of the list being reported.
FirstErr(results) ==
  IF \E i \in 1..Len(results) : results[i] = Err("TypeError") THEN Err("TypeError")
  ELSE results[CHOOSE i \in 1..Len(results) :
            IsErr(results[i]) /\ \A j \in 1..(i - 1) : ~IsErr(results[j])]

RECURSIVE ReduceFrom(_, _, _)
\* reduce(f, items) continued from the accumulator acc; f is "add" or
\* "multiply", applied to matrices (K) or to vectors (Kdiag)
ReduceFrom(f, acc, items) ==
  IF items = <<>> THEN acc
  ELSE ReduceFrom(f,
         CASE f = "add" -> MatAdd(acc, items[1])
           [] f = "multiply" -> MatMul(acc, items[1])
           [] f = "vadd" -> VecAdd(acc, items[1])
           [] f = "vmultiply" -> VecMul(acc, items[1]),
         Tail(items))

Reduce(f, items) == ReduceFrom(f, items[1], Tail(items))

\* reduce over the results, unless one of them is a failure
ReduceResults(f, results) ==
  IF \E i \in 1..Len(results) : IsErr(results[i]) THEN FirstErr(results)
  ELSE Ok(Reduce(f, [i \in 1..Len(results) |-> results[i].val]))

RECURSIVE K(_, _, _, _)
RECURSIVE Kdiag(_, _, _)
\* [k.K(X, X2) for k in self.kern_list] and [k.Kdiag(X) for k in ...]
ChildrenK(self, x, x2) ==
  [i \in 1..Len(self.kern_list) |-> K(self.kern_list[i], x, x2, "omitted")]
ChildrenKdiag(self, x) ==
  [i \in 1..Len(self.kern_list) |-> Kdiag(self.kern_list[i], x, "omitted")]

\* Prod.K that skips its last child
ProdKDropLast(self, x, x2, presliced) ==
  ReduceResults("multiply", SubSeq(ChildrenK(self, x, x2), 1, Len(self.kern_list) - 1))

AddK(self, x, x2, presliced) ==
  ReduceResults("add", ChildrenK(self, x, x2))
AddKdiag(self, x, presliced) ==
  ReduceResults("vadd", ChildrenKdiag(self, x))
ProdK(self, x, x2, presliced) ==
  ReduceResults("multiply", ChildrenK(self, x, x2))
ProdKdiag(self, x, presliced) ==
  ReduceResults("vmultiply", ChildrenKdiag(self, x))

---------------------------------------------------------------------------
(* Partial derivatives of one kernel entry k(x, y), as tf.gradients gives  *)
(* them.  A variable is [side |-> "l" or "r", col |-> c]: the entry c of   *)
(* the left point x or of the right point y (columns of the matrix handed  *)
(* to the base kernel, 0-based).  The derivative is taken once per element *)
(* of the sequence vars.  Modelled for RBF, Linear, Polynomial and for Add *)
(* (the sum of its children's derivatives, a child that does not depend on *)
(* its inputs adding 0).  tf.gradients returns None, not a tensor, when    *)
(* the value has no differentiable path to the input; the code then fails  *)
(* on None[i, d] with a TypeError while the graph is built.                *)

\* the columns of a D-column input that the kernel reads
ActiveCols(self, D) ==
  IF IsSlice(self.active_dims) THEN SliceIndices(self.active_dims.slice, D)
  ELSE self.active_dims.dims

Reads(self, D, c) == \E a \in 1..Len(ActiveCols(self, D)) : ActiveCols(self, D)[a] = c

\* the sequence s without its element at position j
Without(s, j) == SubSeq(s, 1, j - 1) \o SubSeq(s, j + 1, Len(s))

\* r2 over the columns the kernel reads
ActiveSquareDist(self, x, y) ==
  LET idx == ActiveCols(self, Len(x))
  IN SumSeq([a \in 1..Len(idx) |->
               (x[idx[a] + 1] - y[idx[a] + 1]) * (x[idx[a] + 1] - y[idx[a] + 1])])

RECURSIVE Hermite(_, _, _)
\* the polynomial P with  d/dd_c1 ... d/dd_cn exp(-|d|^2 / 2) = P * exp(-|d|^2 / 2),
\* d = x - y, for the columns cols = <<c1, ..., cn>>
Hermite(cols, x, y) ==
  IF cols = <<>> THEN 1
  ELSE LET c == cols[1]
           rest == Tail(cols)
       IN (0 - (x[c + 1] - y[c + 1])) * Hermite(rest, x, y)
          - SumSeq([j \in 1..Len(rest) |->
                      IF rest[j] = c THEN Hermite(Without(rest, j), x, y) ELSE 0])

RBFDeriv(self, x, y, vs) ==
  IF \E t \in 1..Len(vs) : ~Reads(self, Len(x), vs[t].col) THEN VInt(0)
  ELSE LET rights == Cardinality({t \in 1..Len(vs) : vs[t].side = "r"})
           sign == IF rights % 2 = 0 THEN 1 ELSE 0 - 1
       IN VScale(sign * Hermite([t \in 1..Len(vs) |-> vs[t].col], x, y),
                 VExp(self.variance, ActiveSquareDist(self, x, y)))

\* u = variance * <x, y> over the columns read, + offset
PolyU(self, offset, x, y) ==
  LET idx == ActiveCols(self, Len(x))
  IN SumSeq([a \in 1..Len(idx) |-> self.variance * x[idx[a] + 1] * y[idx[a] + 1]]) + offset

\* du/dv for one variable, and d2u/(dv dw) for two
PolyDu(self, x, y, v) ==
  IF ~Reads(self, Len(x), v.col) THEN 0
  ELSE IF v.side = "l" THEN self.variance * y[v.col + 1] ELSE self.variance * x[v.col + 1]
PolyDuu(self, x, y, v, w) ==
  IF v.side # w.side /\ v.col = w.col /\ Reads(self, Len(x), v.col)
  THEN self.variance ELSE 0

RECURSIVE Falling(_, _)
\* p (p-1) ... (p-m+1)
Falling(p, m) == IF m = 0 THEN 1 ELSE (p - m + 1) * Falling(p, m - 1)

RECURSIVE PolyChain(_, _, _, _, _, _, _)
\* the derivative of u^p with respect to the variables vs, m factors of
\* the chain rule already taken: a sum over the ways to split vs into single
\* variables and (left, right) pairs
PolyChain(self, p, offset, x, y, vs, m) ==
  IF vs = <<>>
  THEN IF m > p THEN 0 ELSE Falling(p, m) * IntPow(PolyU(self, offset, x, y), p - m)
  ELSE LET rest == Tail(vs)
       IN PolyDu(self, x, y, vs[1]) * PolyChain(self, p, offset, x, y, rest, m + 1)
          + SumSeq([j \in 1..Len(rest) |->
                      PolyDuu(self, x, y, vs[1], rest[j])
                        * PolyChain(self, p, offset, x, y, Without(rest, j), m + 1)])

RECURSIVE HasGradient(_, _)
\* whether every tf.gradients call of a chain returns a tensor; sides lists
\* the calls in order, "l" for X and "r" for X2.  White, Constant, Bias and
\* Coregion do not depend on their inputs differentiably; the gradient of
\* Linear with respect to one side depends on the other side only, and the
\* mixed second gradient on neither.
HasGradient(self, sides) ==
  IF sides = <<>> THEN TRUE
  ELSE CASE self.cls \in {"RBF", "Polynomial"} -> TRUE
         [] self.cls = "Linear" ->
              Len(sides) = 1 \/ (Len(sides) = 2 /\ sides[1] # sides[2])
         [] self.cls \in {"White", "Constant", "Bias", "Coregion"} -> FALSE
         [] self.cls = "Add" ->
              \E i \in 1..Len(self.kern_list) : HasGradient(self.kern_list[i], sides)

\* raw_kernel[i, j] as the kernel gives it for the rows x of X and y of X2
\* (X2 is always given): the entry, or the failure of the evaluation
RawEntry(self, x, y) ==
  LET raw == K(self, <<x>>, <<y>>, "omitted")
  IN IF IsErr(raw) THEN raw ELSE Ok(raw.val[1][1])

RECURSIVE DerivValue(_, _, _, _)
\* the value of the derivative, when every gradient of the chain exists: the
\* raw entry when the chain is empty, and the failure of the raw kernel when
\* it has no value to differentiate
DerivValue(self, x, y, vs) ==
  IF IsErr(RawEntry(self, x, y)) THEN RawEntry(self, x, y)
  ELSE CASE self.cls = "RBF" -> Ok(RBFDeriv(self, x, y, vs))
         [] self.cls = "Linear" -> Ok(VInt(PolyChain(self, 1, 0, x, y, vs, 0)))
         [] self.cls = "Polynomial" ->
              Ok(VInt(PolyChain(self, self.degree, self.offset, x, y, vs, 0)))
         [] self.cls \in {"White", "Constant", "Bias", "Coregion"} ->
              IF vs = <<>> THEN RawEntry(self, x, y) ELSE Ok(VInt(0))
         [] self.cls = "Add" ->
              LET parts == [i \in 1..Len(self.kern_list) |->
                              DerivValue(self.kern_list[i], x, y, vs).val]
              IN Ok(ReduceFrom("vadd", <<parts[1]>>,
                               [i \in 1..(Len(parts) - 1) |-> <<parts[i + 1]>>])[1])

\* k differentiated once per element of vs: the TypeError of None[i, d],
\* raised while the graph is built, or else what the evaluation gives
Deriv(self, x, y, vs) ==
  IF HasGradient(self, [t \in 1..Len(vs) |-> vs[t].side])
  THEN DerivValue(self, x, y, vs)
  ELSE Err("TypeError")

---------------------------------------------------------------------------
(* The differential-observation kernels. *)

DifferentialObservationsKernelPreDefined(input_dim, base_kernel, deriv_info_x, deriv_info_x2, active_dims) ==
  Leaf("DifferentialObservationsKernelPreDefined", input_dim, active_dims,
       [base_kernel |-> base_kernel, deriv_info_x |-> deriv_info_x,
        deriv_info_x2 |-> deriv_info_x2])

DifferentialObservationsKernelDynamic(input_dim, base_kernel, obs_dims, active_dims) ==
  Leaf("DifferentialObservationsKernelDynamic", input_dim, active_dims,
       [base_kernel |-> base_kernel, obs_dims |-> obs_dims])

\* The dimensions  zip(range(num_derivs), deriv_order)  runs over, for one
\* row <<num_derivs, d1, d2, ...>> of a derivative information matrix: zip
\* stops at the shorter of the two.
ZipDerivs(row) == SubSeq(Tail(row), 1, Min(Max(row[1], 0), Len(row) - 1))

\* t[i, d] for a numpy integer d: a negative d counts from the last column,
\* a d outside the D columns is an index error
Column(d, D) ==
  IF d >= D \/ D + d < 0 THEN Err("SliceIndexError")
  ELSE Ok(IF d < 0 THEN D + d ELSE d)

ColumnsOk(dims, D) == \A t \in 1..Len(dims) : IsOk(Column(dims[t], D))

\* the variables of the dimensions dims, all inside the D columns
AsVars(side, dims, D) ==
  [t \in 1..Len(dims) |-> [side |-> side, col |-> Column(dims[t], D).val]]

\* the sides of the tf.gradients calls for left and right derivatives
Sides(left, right) ==
  [t \in 1..Len(left) |-> "l"] \o [t \in 1..Len(right) |-> "r"]

\* the entries of a matrix of results, or the first error among them
Entries(results) ==
  LET bad == {ij \in UNION {{<<i, j>> : j \in 1..Len(results[i])} : i \in 1..Len(results)} :
                IsErr(results[ij[1]][ij[2]])}
      first == CHOOSE ij \in bad :
                 \A other \in bad : ij[1] < other[1] \/ (ij[1] = other[1] /\ ij[2] <= other[2])
  IN IF bad # {} THEN results[first[1]][first[2]]
     ELSE Ok([i \in 1..Len(results) |-> [j \in 1..Len(results[i]) |-> results[i][j].val]])

\* One entry of the output: the raw kernel entry, differentiated once per
\* element of left with respect to the left point and then once per element of
\* right with respect to the right point.
DiffEntry(base, raw, x, y, left, right) ==
  IF left = <<>> /\ right = <<>> THEN Ok(raw)
  ELSE IF ~HasGradient(base, Sides(left, right)) THEN Err("TypeError")
  ELSE IF ~(ColumnsOk(left, Len(x)) /\ ColumnsOk(right, Len(y))) THEN Err("SliceIndexError")
  ELSE Deriv(base, x, y, AsVars("l", left, Len(x)) \o AsVars("r", right, Len(y)))

\* DifferentialObservationsKernelPreDefined.K(X, X2)
PreDefinedK(self, x, x2, presliced) ==
  IF presliced # "omitted" THEN Err("TypeError")
  ELSE LET y == Right(x, x2)
           deriv_info_x2 == IF x2 = None THEN self.deriv_info_x ELSE self.deriv_info_x2
           raw_kernel == K(self.base_kernel, x, y, "omitted")
       IN \* the graph is built for every pair of descriptor rows
          IF \E i \in 1..Len(self.deriv_info_x) : \E j \in 1..Len(deriv_info_x2) :
               ~HasGradient(self.base_kernel,
                            Sides(ZipDerivs(self.deriv_info_x[i]), ZipDerivs(deriv_info_x2[j])))
          THEN Err("TypeError")
          ELSE IF IsErr(raw_kernel) THEN raw_kernel
          ELSE IF Len(self.deriv_info_x) # Len(x) \/ Len(deriv_info_x2) # Len(y)
          THEN Err("ShapeError")
          ELSE Entries([i \in 1..Len(x) |-> [j \in 1..Len(y) |->
                     DiffEntry(self.base_kernel, raw_kernel.val[i][j], x[i], y[j],
                               ZipDerivs(self.deriv_info_x[i]),
                               ZipDerivs(deriv_info_x2[j]))]])

\* _split_x_into_locs_and_grad_information: x[:, :obs_dims], x[:, -obs_dims:]
SplitLocs(self, x) == TakeCols(x, SliceIndices([stop |-> self.obs_dims], NCols(x)))
\* the start -obs_dims counts from the last column, and -0 is column 0
SplitGradInfo(self, x) ==
  TakeCols(x, SliceIndices([start |-> IF self.obs_dims = 0 THEN 0
                                      ELSE Max(NCols(x) - self.obs_dims, 0)], NCols(x)))

\* tf.argmax of one row: the first position of the largest entry, 0-based
ArgMax(row) ==
  (CHOOSE a \in 1..Len(row) :
     /\ \A b \in 1..Len(row) : row[b] <= row[a]
     /\ \A b \in 1..(a - 1) : row[b] < row[a]) - 1

\* the second index taken from the mask as given, the first derivative not
\* removed from it
ConvertGradInfoNoRemoval(grad_info_matrix) ==
  [n \in 1..Len(grad_info_matrix) |->
     <<SumSeq(grad_info_matrix[n]), ArgMax(grad_info_matrix[n]), ArgMax(grad_info_matrix[n])>>]

\* _convert_grad_info_into_indics: rows <<number_grads, first_index, second_index>>
ConvertGradInfo(grad_info_matrix) ==
  [n \in 1..Len(grad_info_matrix) |->
     LET row == grad_info_matrix[n]
         first_index == ArgMax(row)
         remaining == [a \in 1..Len(row) |-> row[a] - (IF a = first_index + 1 THEN 1 ELSE 0)]
     IN <<SumSeq(row), first_index, ArgMax(remaining)>>]

\* A table whose third-order branches stop one derivative short
CaseTableShort(dl, dr) ==
  LET l == [d \in {dl[2], dl[3]} |-> [side |-> "l", idx |-> d]]
      r == [d \in {dr[2], dr[3]} |-> [side |-> "r", idx |-> d]]
  IN << [when |-> dl[1] = 1 /\ dr[1] = 0, chain |-> <<l[dl[2]]>>],
        [when |-> dl[1] = 0 /\ dr[1] = 1, chain |-> <<r[dr[2]]>>],
        [when |-> dl[1] = 2 /\ dr[1] = 0, chain |-> <<l[dl[2]], l[dl[3]]>>],
        [when |-> dl[1] = 1 /\ dr[1] = 1, chain |-> <<r[dr[2]], l[dl[2]]>>],
        [when |-> dl[1] = 0 /\ dr[1] = 2, chain |-> <<r[dr[2]], r[dr[3]]>>],
        [when |-> dl[1] = 2 /\ dr[1] = 1, chain |-> <<r[dr[2]], l[dl[2]]>>],
        [when |-> dl[1] = 1 /\ dr[1] = 2, chain |-> <<r[dr[2]], l[dl[2]]>>],
        [when |-> dl[1] = 2 /\ dr[1] = 2,
         chain |-> <<r[dr[2]], r[dr[3]], l[dl[2]], l[dl[3]]>>] >>

\* The (predicate, function) pairs of the tf.case in calc_derivs, in the
\* order written, for one left row dl = <<num_left_derivs, idx_i, idx_j>> and
\* one right row dr = <<num_right_derivs, idx_k, idx_m>>.  chain lists the
\* tf.gradients calls of the function, innermost first: ("l", d) is
\* tf.gradients(., xl)[0][idxl, d] and ("r", d) is tf.gradients(., xr)[0][idxr, d].
CaseTable(dl, dr) ==
  LET l == [d \in {dl[2], dl[3]} |-> [side |-> "l", idx |-> d]]
      r == [d \in {dr[2], dr[3]} |-> [side |-> "r", idx |-> d]]
      idx_i == dl[2]
      idx_j == dl[3]
      idx_k == dr[2]
      idx_m == dr[3]
  IN << [when |-> dl[1] = 1 /\ dr[1] = 0, chain |-> <<l[idx_i]>>],
        [when |-> dl[1] = 0 /\ dr[1] = 1, chain |-> <<r[idx_k]>>],
        [when |-> dl[1] = 2 /\ dr[1] = 0, chain |-> <<l[idx_i], l[idx_j]>>],
        [when |-> dl[1] = 1 /\ dr[1] = 1, chain |-> <<r[idx_k], l[idx_i]>>],
        [when |-> dl[1] = 0 /\ dr[1] = 2, chain |-> <<r[idx_k], r[idx_m]>>],
        [when |-> dl[1] = 2 /\ dr[1] = 1, chain |-> <<r[idx_k], l[idx_i], l[idx_j]>>],
        [when |-> dl[1] = 1 /\ dr[1] = 2, chain |-> <<r[idx_k], r[idx_m], l[idx_i]>>],
        [when |-> dl[1] = 2 /\ dr[1] = 2,
         chain |-> <<r[idx_k], r[idx_m], l[idx_i], l[idx_j]>>] >>

\* the positions of the table whose predicate holds
CaseHits(dl, dr) == {b \in 1..Len(CaseTable(dl, dr)) : CaseTable(dl, dr)[b].when}

RECURSIVE OnSide(_, _)
\* the dimensions a chain differentiates on one side, in chain order
OnSide(chain, side) ==
  IF chain = <<>> THEN <<>>
  ELSE (IF chain[1].side = side THEN <<chain[1].idx>> ELSE <<>>)
         \o OnSide(Tail(chain), side)

\* The branch of the tf.case in calc_derivs that (l, r) selects: the
\* dimensions differentiated on each side; no branch (the default, the raw
\* value) when no predicate holds.
CaseDerivs(dl, dr) ==
  IF CaseHits(dl, dr) = {} THEN [left |-> <<>>, right |-> <<>>]
  ELSE LET chain == CaseTable(dl, dr)[CHOOSE b \in CaseHits(dl, dr) : TRUE].chain
       IN [left |-> OnSide(chain, "l"), right |-> OnSide(chain, "r")]

\* the sides of the tf.gradients calls of every function handed to tf.case;
\* tf.case builds them all, whatever the counts are
BuiltChains ==
  LET table == CaseTable(<<0, 0, 0>>, <<0, 0, 0>>)
  IN {[t \in 1..Len(table[b].chain) |-> table[b].chain[t].side] : b \in 1..Len(table)}

\* DifferentialObservationsKernelDynamic.K(X, X2)
DynamicK(self, x, x2, presliced) ==
  IF presliced # "omitted" THEN Err("TypeError")
  ELSE LET y == Right(x, x2)
           x1 == SplitLocs(self, x)
           xr == SplitLocs(self, y)
           d1 == ConvertGradInfo(SplitGradInfo(self, x))
           d2 == ConvertGradInfo(SplitGradInfo(self, y))
           raw_kernel == K(self.base_kernel, x1, xr, "omitted")
       IN IF \E sides \in BuiltChains : ~HasGradient(self.base_kernel, sides)
          THEN Err("TypeError")
          ELSE IF IsErr(raw_kernel) THEN raw_kernel
          ELSE Entries([i \in 1..Len(x) |-> [j \in 1..Len(y) |->
                     DiffEntry(self.base_kernel, raw_kernel.val[i][j], x1[i], xr[j],
                               CaseDerivs(d1[i], d2[j]).left,
                               CaseDerivs(d1[i], d2[j]).right)]])

\* Kdiag of both differential kernels: tf.diag_part(self.K(X))
DiffKdiag(self, x, presliced) ==
  IF presliced # "omitted" THEN Err("TypeError")
  ELSE LET k == K(self, x, None, "omitted")
       IN IF IsErr(k) THEN k ELSE Ok(DiagPart(k.val))

---------------------------------------------------------------------------
(* Dynamic dispatch on the class of the kernel. *)

K(self, x, x2, presliced) ==
  CASE self.cls = "White" -> WhiteK(self, x, x2)
    [] self.cls \in {"Constant", "Bias"} -> ConstantK(self, x, x2)
    [] self.cls = "RBF" -> RBFK(self, x, x2, presliced)
    [] self.cls = "Linear" -> LinearK(self, x, x2, presliced)
    [] self.cls = "Polynomial" -> PolynomialK(self, x, x2, presliced)
    [] self.cls \in {"Exponential", "Matern12", "Matern32", "Matern52", "Cosine"} ->
         EuclidK(self, x, x2, presliced)
    [] self.cls = "ArcCosine" -> ArcCosineK(self, x, x2, presliced)
    [] self.cls = "PeriodicKernel" -> PeriodicK(self, x, x2, presliced)
    [] self.cls = "Coregion" -> CoregionK(self, x, x2, presliced)
    [] self.cls = "Add" -> AddK(self, x, x2, presliced)
    [] self.cls = "Prod" -> ProdK(self, x, x2, presliced)
    [] self.cls = "DifferentialObservationsKernelPreDefined" ->
         PreDefinedK(self, x, x2, presliced)
    [] self.cls = "DifferentialObservationsKernelDynamic" ->
         DynamicK(self, x, x2, presliced)

Kdiag(self, x, presliced) ==
  CASE self.cls \in {"White", "Constant", "Bias"} -> StaticKdiag(self, x, presliced)
    [] self.cls \in {"RBF", "PeriodicKernel"} -> StationaryKdiag(self, x)
    [] self.cls \in {"Exponential", "Matern12", "Matern32", "Matern52", "Cosine"} ->
         EuclidKdiag(self, x)
    [] self.cls = "ArcCosine" -> ArcCosineKdiag(self, x, presliced)
    [] self.cls = "Linear" -> LinearKdiag(self, x, presliced)
    [] self.cls = "Polynomial" -> PolynomialKdiag(self, x, presliced)
    [] self.cls = "Coregion" -> CoregionKdiag(self, x, presliced)
    [] self.cls = "Add" -> AddKdiag(self, x, presliced)
    [] self.cls = "Prod" -> ProdKdiag(self, x, presliced)
    [] self.cls \in {"DifferentialObservationsKernelPreDefined",
                     "DifferentialObservationsKernelDynamic"} ->
         DiffKdiag(self, x, presliced)

---------------------------------------------------------------------------
(* Inputs of the model.  The data are a fixed table of points; an input    *)
(* matrix is a run of at most MaxRows consecutive points, cut to its first *)
(* D columns.  Read with obs_dims = 1 and D = 2 the second column is the   *)
(* derivative mask (0, 0, 2, 3, 1, 1, 0); with obs_dims = 2 and D = 4 the  *)
(* last two columns are.                                                   *)

Data ==
  << <<0, 0, 1, 0>>,
     <<1, 0, 0, 0>>,
     <<1, 2, 2, 0>>,
     <<2, 3, 0, 1>>,
     <<0, 1, 1, 1>>,
     <<2, 1, 3, 0>>,
     <<1, 0, 0, 0>> >>

Widths == 1..Len(Data[1])

Window(from, len, D) == [n \in 1..len |-> [c \in 1..D |-> Data[from + n - 1][c]]]

InputsOfWidth(D) ==
  UNION {{Window(from, len, D) : from \in 1..(Len(Data) - len + 1)} : len \in 1..MaxRows}

Inputs == UNION {InputsOfWidth(D) : D \in Widths}

\* Rows of derivative information matrices (count, first dim, second dim);
\* a matrix is a run of consecutive rows.
DerivData ==
  << <<0, 0 - 1, 0 - 1>>,
     <<0, 0 - 1, 0 - 1>>,
     <<1, 1, 0 - 1>>,
     <<2, 0, 1>>,
     <<3, 0, 0>>,
     <<2, 1, 0 - 1>> >>

DerivWindow(from, len) == [n \in 1..len |-> DerivData[((from + n - 2) % Len(DerivData)) + 1]]
ZeroDerivs(len) == [n \in 1..len |-> DerivData[1]]
\* a matrix with three dimension columns, the first row of order three
WideDerivs(len) == [n \in 1..len |-> IF n = 1 THEN <<3, 0, 1, 0>> ELSE <<0, 0 - 1, 0 - 1, 0 - 1>>]
\* a matrix whose first row differentiates once, in the fourth column
OutsideDerivs(len) == [n \in 1..len |-> IF n = 1 THEN <<1, 3, 0 - 1>> ELSE DerivData[1]]

\* Current parameter readings of the Coregion kernels: output_dim = 3 and
\* the scenario output_dim = 2, W = [[1], [0]], kappa = [1, 1].
kWhite == White(1, 2, NoDims).val
kConstant == Constant(1, 3, NoDims).val
kRBF2 == RBF(2, 2, NoDims).val
kRBF1 == RBF(1, 1, NoDims).val
kRBFcol == RBF(1, 1, [dims |-> <<2>>]).val
kRBFslice == RBF(1, 3, [slice |-> [start |-> 1, stop |-> 2]]).val
kLinear2 == Linear(2, 2, NoDims).val
kLinearCol == Linear(1, 1, [dims |-> <<1>>]).val
kRBFpair == RBF(2, 1, [dims |-> <<0, 2>>]).val
kPolynomial == Polynomial(1, 2, 1, 1, NoDims).val
kCoregion3 == Coregion(1, <<<<1>>, <<0>>, <<2>>>>, <<1, 1, 2>>, NoDims).val
kCoregion2 == Coregion(1, <<<<1>>, <<0>>>>, <<1, 1>>, NoDims).val

kPeriodic == PeriodicKernel(2, 2, 3, NoDims).val

\* the kernels whose K is computed with a jitter
JitterKernels ==
  {Stationary(cls, 2, 2, NoDims).val :
     cls \in {"Exponential", "Matern12", "Matern32", "Matern52", "Cosine"}}
  \cup {ArcCosine(2, order, 2, 1, 1, NoDims).val : order \in 0..2}

LeafKernels ==
  {kWhite, kConstant, kRBF2, kRBFcol, kRBFslice, kLinear2, kLinearCol, kPolynomial,
   kCoregion3, kCoregion2, kPeriodic} \cup JitterKernels

kAddRBFWhite == Add(<<kRBF2, kWhite>>).val
kProdLinConst == Prod(<<kLinear2, kConstant>>).val
kAddSliceWhite == Add(<<kRBFslice, kWhite>>).val

CombinationKernels ==
  {kAddRBFWhite, kProdLinConst,
   Add(<<kLinear2, kLinearCol, kConstant>>).val,
   Prod(<<kRBF2, kRBFslice, kPolynomial>>).val,
   Plus(kProdLinConst, kWhite).val,
   Times(kAddRBFWhite, kCoregion3).val}

\* Base kernels tf.gradients differentiates any number of times, and base
\* kernels it differentiates twice at most (Linear) or not at all (White).
SmoothKernels == {kRBF2, kAddRBFWhite}
RoughKernels == {kLinear2, kWhite}
ZeroOrderBases == {kWhite, kCoregion3, kRBF2, kLinear2, kAddRBFWhite, kProdLinConst}

StaticKernels ==
  {DifferentialObservationsKernelPreDefined(b.input_dim, b, ZeroDerivs(len),
                                            ZeroDerivs(len), NoDims).val :
     b \in ZeroOrderBases, len \in 1..MaxRows}
  \cup
  {DifferentialObservationsKernelPreDefined(b.input_dim, b, DerivWindow(from, len),
                                            DerivWindow(from + 1, len), NoDims).val :
     b \in SmoothKernels, from \in 1..Len(DerivData), len \in 1..MaxRows}
  \cup
  {DifferentialObservationsKernelPreDefined(b.input_dim, b, WideDerivs(len),
                                            WideDerivs(len), NoDims).val :
     b \in SmoothKernels, len \in 1..MaxRows}
  \cup
  {DifferentialObservationsKernelPreDefined(b.input_dim, b, OutsideDerivs(len),
                                            ZeroDerivs(len), NoDims).val :
     b \in SmoothKernels, len \in 1..MaxRows}
  \cup
  {DifferentialObservationsKernelPreDefined(b.input_dim, b, DerivWindow(from, len),
                                            DerivWindow(from + 1, len), NoDims).val :
     b \in RoughKernels, from \in 1..Len(DerivData), len \in 1..MaxRows}

DynamicKernels ==
  {DifferentialObservationsKernelDynamic(2, kRBF1, 1, NoDims).val,
   DifferentialObservationsKernelDynamic(2, Add(<<kRBF1, kWhite>>).val, 1, NoDims).val,
   DifferentialObservationsKernelDynamic(4, kRBF2, 2, NoDims).val,
   DifferentialObservationsKernelDynamic(4, kAddRBFWhite, 2, NoDims).val,
   DifferentialObservationsKernelDynamic(2, kWhite, 1, NoDims).val,
   DifferentialObservationsKernelDynamic(2, Linear(1, 2, NoDims).val, 1, NoDims).val}

EvalKernels == LeafKernels \cup CombinationKernels \cup StaticKernels \cup DynamicKernels

Devices == {"cpu", "gpu"}

---------------------------------------------------------------------------
(* Evaluation: a constructed kernel, fed data, is asked for K and Kdiag. *)

InitEval ==
  /\ kern \in EvalKernels
  /\ X \in Inputs
  /\ X2 = None
  /\ device \in Devices
  /\ op = "init"
  /\ out = Ok(None)
  /\ stack = <<>>
  /\ quadrature = "warn"
  /\ Xcov = NoCov
  /\ log = <<>>

\* kern.K(X) and kern.K(X, X2)
CallK ==
  /\ op = "init"
  /\ \E x2 \in {None} \cup InputsOfWidth(NCols(X)) :
       /\ X2' = x2
       /\ out' = K(kern, X, x2, "omitted")
  /\ op' = "K"
  /\ UNCHANGED <<kern, X, device, stack, quadrature, log, Xcov>>

\* kern.Kdiag(X)
CallKdiag ==
  /\ op = "init"
  /\ X2' = None
  /\ out' = Kdiag(kern, X, "omitted")
  /\ op' = "Kdiag"
  /\ UNCHANGED <<kern, X, device, stack, quadrature, log, Xcov>>

\* the caller drops the result; the kernel is ready for the next call
Discard ==
  /\ op # "init"
  /\ op' = "init"
  /\ out' = Ok(None)
  /\ X2' = None
  /\ log' = <<>>
  /\ UNCHANGED <<kern, X, device, stack, quadrature, Xcov>>

NextEval == CallK \/ CallKdiag \/ Discard

SpecEval == InitEval /\ [][NextEval]_vars

---------------------------------------------------------------------------
(* Claims about evaluation (checked under SpecEval). *)

IsDifferential(k) ==
  k.cls \in {"DifferentialObservationsKernelPreDefined",
             "DifferentialObservationsKernelDynamic"}

\* C1: whenever K(X) is defined, Kdiag(X) is its diagonal: Kdiag(X)[i] =
\* K(X)[i, i] for every row i, for every kernel class of the model.
C1_KdiagIsDiagonalOfK ==
  (op = "Kdiag" /\ IsOk(K(kern, X, None, "omitted")))
    => out = Ok(DiagPart(K(kern, X, None, "omitted").val))

\* the classes whose K goes through euclid_dist or the arc cosine
HasJitter(k) ==
  k.cls \in {"Exponential", "Matern12", "Matern32", "Matern52", "Cosine", "ArcCosine"}

\* the value of a term when its formula is evaluated without the jitter
WithoutJitter(v) ==
  CASE v.fn = "number" -> v
    [] v.fn = "ArcCosine" -> ArcTerm(v.variance, v.arg[1], v.arg[2], v.arg[3], 0)
    [] OTHER -> Radial(v.fn, v.variance, v.arg[1], 0)

\* C1 (amended): whenever K(X) is defined, Kdiag(X)[i] = K(X)[i, i] for every
\* row i, for White, Constant, Bias, RBF, Linear, Polynomial, PeriodicKernel,
\* Coregion, for Add and Prod of these and for both differential kernels; for
\* Exponential, Matern12, Matern32, Matern52, Cosine and ArcCosine Kdiag(X)[i]
\* is K(X)[i, i] evaluated without the jitter, and differs from K(X)[i, i].
C1_KdiagIsDiagonalUpToJitter ==
  (op = "Kdiag" /\ IsOk(K(kern, X, None, "omitted"))) =>
    LET diag == DiagPart(K(kern, X, None, "omitted").val)
    IN IF HasJitter(kern)
       THEN /\ out = Ok([n \in 1..Len(diag) |-> WithoutJitter(diag[n])])
            /\ \A n \in 1..Len(diag) : out.val[n] # diag[n]
       ELSE out = Ok(diag)

\* an ArcCosine kernel of order 2 on two points with different closed-form
\* diagonal entries, each of them not the entry of K
C1_Witness ==
  /\ op = "Kdiag"
  /\ kern.cls = "ArcCosine"
  /\ kern.order = 2
  /\ IsOk(K(kern, X, None, "omitted"))
  /\ IsOk(out)
  /\ Len(X) = 2
  /\ out.val[1] # out.val[2]
  /\ out.val[1] # K(kern, X, None, "omitted").val[1][1]

RECURSIVE FoldLeft(_, _)
\* ((v1 f v2) f v3) ... for f = "add" or "multiply" on kernel values
FoldLeft(f, vs) ==
  IF Len(vs) = 1 THEN vs[1]
  ELSE LET front == FoldLeft(f, SubSeq(vs, 1, Len(vs) - 1))
       IN IF f = "add" THEN VAdd(front, vs[Len(vs)]) ELSE VMul(front, vs[Len(vs)])

ReduceOf(k) == IF k.cls = "Add" THEN "add" ELSE "multiply"

\* C2: the K (and the Kdiag) of Add / Prod is, entry by entry, the left fold
\* of the children's results in kern_list order with + / *; for two children
\* it is A + B, respectively A * B.
C2_CombinationIsLeftFold ==
  /\ (op = "K" /\ IsCombination(kern)
        /\ \A i \in 1..Len(kern.kern_list) : IsOk(K(kern.kern_list[i], X, X2, "omitted")))
      => /\ IsOk(out)
         /\ \A n \in 1..Len(X) : \A m \in 1..Len(Right(X, X2)) :
              out.val[n][m] =
                FoldLeft(ReduceOf(kern),
                         [i \in 1..Len(kern.kern_list) |->
                            K(kern.kern_list[i], X, X2, "omitted").val[n][m]])
  /\ (op = "Kdiag" /\ IsCombination(kern)
        /\ \A i \in 1..Len(kern.kern_list) : IsOk(Kdiag(kern.kern_list[i], X, "omitted")))
      => /\ IsOk(out)
         /\ \A n \in 1..Len(X) :
              out.val[n] =
                FoldLeft(ReduceOf(kern),
                         [i \in 1..Len(kern.kern_list) |->
                            Kdiag(kern.kern_list[i], X, "omitted").val[n]])

\* a product of three children evaluated on two inputs, with entries that
\* differ
C2_Witness ==
  /\ op = "K"
  /\ kern.cls = "Prod"
  /\ Len(kern.kern_list) = 3
  /\ X2 # None
  /\ IsOk(out)
  /\ Len(X) = 2
  /\ out.val[1][1] # out.val[2][1]

\* the derivative counts a call uses: column 0 of the information matrices
\* (static layout), the row sums of the trailing mask (dynamic layout)
CountsLeft(k, x) ==
  IF k.cls = "DifferentialObservationsKernelPreDefined"
  THEN [n \in 1..Len(k.deriv_info_x) |-> k.deriv_info_x[n][1]]
  ELSE [n \in 1..Len(x) |-> SumSeq(SplitGradInfo(k, x)[n])]
CountsRight(k, x, x2) ==
  IF k.cls = "DifferentialObservationsKernelPreDefined"
  THEN IF x2 = None THEN [n \in 1..Len(k.deriv_info_x) |-> k.deriv_info_x[n][1]]
       ELSE [n \in 1..Len(k.deriv_info_x2) |-> k.deriv_info_x2[n][1]]
  ELSE [n \in 1..Len(Right(x, x2)) |-> SumSeq(SplitGradInfo(k, Right(x, x2))[n])]

\* inputs of the kernel's width, and one count per point on both sides
CountsFit(k, x, x2) ==
  /\ NCols(x) = k.input_dim
  /\ NCols(Right(x, x2)) = k.input_dim
  /\ Len(CountsLeft(k, x)) = Len(x)
  /\ Len(CountsRight(k, x, x2)) = Len(Right(x, x2))

\* C9 (as claimed): a derivative count of 3 or more for any point makes K
\* fail with an error, in both layouts.
C9_HighOrderIsRejected ==
  (/\ op = "K"
   /\ IsDifferential(kern)
   /\ CountsFit(kern, X, X2)
   /\ \/ \E n \in 1..Len(X) : CountsLeft(kern, X)[n] >= 3
      \/ \E m \in 1..Len(Right(X, X2)) : CountsRight(kern, X, X2)[m] >= 3)
    => IsErr(out)

\* what the base kernel is handed in each layout
BaseInput(k, x) ==
  IF x = None THEN None
  ELSE IF k.cls = "DifferentialObservationsKernelDynamic" THEN SplitLocs(k, x)
  ELSE x

\* C10 (as claimed): with every derivative count zero, the differential
\* kernel's K(X, X2) is base_kernel.K(X, X2), and its K(X) is base_kernel.K(X)
\* with the second argument omitted.
C10_ZeroOrderIsBaseKernel ==
  (/\ op = "K"
   /\ IsDifferential(kern)
   /\ CountsFit(kern, X, X2)
   /\ \A n \in 1..Len(X) : CountsLeft(kern, X)[n] = 0
   /\ \A m \in 1..Len(Right(X, X2)) : CountsRight(kern, X, X2)[m] = 0)
    => out = K(kern.base_kernel, BaseInput(kern, X), BaseInput(kern, X2), "omitted")

---------------------------------------------------------------------------
(* Construction: kernels are created and combined, bottom up.  stack holds
   the kernels built so far, log the operands of the latest combination,
   out what the latest read of on_separate_dimensions returned. *)

BuildLeaves == {kRBFcol, kRBFpair, kRBFslice, kLinear2, kLinearCol}

RECURSIVE Leaves(_)
\* the number of leaf kernels inside k
Leaves(k) ==
  IF IsCombination(k)
  THEN SumSeq([i \in 1..Len(k.kern_list) |-> Leaves(k.kern_list[i])])
  ELSE 1

StackLeaves == SumSeq([i \in 1..Len(stack) |-> Leaves(stack[i])])

InitBuild ==
  /\ stack = <<>>
  /\ op = "init"
  /\ log = <<>>
  /\ out = Ok(None)
  /\ kern = kRBF1
  /\ X = None
  /\ X2 = None
  /\ device = "cpu"
  /\ quadrature = "warn"
  /\ Xcov = NoCov

PushLeaf ==
  /\ StackLeaves < MaxLeaves
  /\ \E k \in BuildLeaves : stack' = Append(stack, k)
  /\ op' = "push"
  /\ log' = <<>>
  /\ out' = Ok(None)
  /\ UNCHANGED <<kern, X, X2, device, quadrature, Xcov>>

\* the top n kernels of the stack replaced by their combination
Combine(name, cls, n) ==
  LET kern_list == SubSeq(stack, Len(stack) - n + 1, Len(stack))
      made      == Combination(cls, kern_list)
  IN /\ stack' = Append(SubSeq(stack, 1, Len(stack) - n), made.val)
     /\ log' = kern_list
     /\ op' = name
     /\ out' = Ok(None)
  /\ UNCHANGED <<kern, X, X2, device, quadrature, Xcov>>

\* Add([...]) and Prod([...]) on an explicit list of two or more kernels
AddList == \E n \in 2..Len(stack) : Combine("Add", "Add", n)
ProdList == \E n \in 2..Len(stack) : Combine("Prod", "Prod", n)

\* a + b and a * b
PlusOp ==
  /\ Len(stack) >= 2
  /\ stack' = Append(SubSeq(stack, 1, Len(stack) - 2),
                     Plus(stack[Len(stack) - 1], stack[Len(stack)]).val)
  /\ log' = SubSeq(stack, Len(stack) - 1, Len(stack))
  /\ op' = "+"
  /\ out' = Ok(None)
  /\ UNCHANGED <<kern, X, X2, device, quadrature, Xcov>>

TimesOp ==
  /\ Len(stack) >= 2
  /\ stack' = Append(SubSeq(stack, 1, Len(stack) - 2),
                     Times(stack[Len(stack) - 1], stack[Len(stack)]).val)
  /\ log' = SubSeq(stack, Len(stack) - 1, Len(stack))
  /\ op' = "*"
  /\ out' = Ok(None)
  /\ UNCHANGED <<kern, X, X2, device, quadrature, Xcov>>

\* the property on_separate_dimensions of the combination just built is read
ReadSeparate ==
  /\ op \in {"Add", "Prod", "+", "*"}
  /\ op' = "on_separate_dimensions"
  /\ out' = Ok(on_separate_dimensions(stack[Len(stack)]))
  /\ UNCHANGED <<kern, X, X2, device, quadrature, stack, log, Xcov>>

NextBuild == PushLeaf \/ AddList \/ ProdList \/ PlusOp \/ TimesOp \/ ReadSeparate
SpecBuild == InitBuild /\ [][NextBuild]_vars

---------------------------------------------------------------------------
(* Claims about construction (checked under SpecBuild). *)

Top == stack[Len(stack)]
Combined == op \in {"Add", "Prod", "+", "*"}

RECURSIVE NoSameOperatorChild(_)
\* no combination inside k has a child of its own class
NoSameOperatorChild(k) ==
  IsCombination(k) =>
    \A i \in 1..Len(k.kern_list) :
      /\ k.kern_list[i].cls # k.cls
      /\ NoSameOperatorChild(k.kern_list[i])

\* what operand i of the latest combination hands to the result: its own
\* children when it is a combination of the same operator, itself otherwise
Piece(i) ==
  IF log[i].cls = Top.cls THEN log[i].kern_list ELSE <<log[i]>>
Offset(i) == SumSeq([j \in 1..(i - 1) |-> Len(Piece(j))])

\* C3: no combination ever holds a child combination of its own operator:
\* the children of a new combination are its operands in order, each operand
\* of the same operator replaced by its children and each other operand kept
\* as one child; + and * build what Add([a, b]) and Prod([a, b]) build.
C3_CombinationsAreFlat ==
  /\ \A s \in 1..Len(stack) : NoSameOperatorChild(stack[s])
  /\ Combined =>
       /\ Top.cls = (IF op \in {"Add", "+"} THEN "Add" ELSE "Prod")
       /\ Len(Top.kern_list) = Offset(Len(log) + 1)
       /\ \A i \in 1..Len(log) : \A j \in 1..Len(Piece(i)) :
            Top.kern_list[Offset(i) + j] = Piece(i)[j]
  /\ op = "+" => Top = Add(log).val
  /\ op = "*" => Top = Prod(log).val

\* a sum of four kernels built with three +, and a product that keeps a sum
\* as one child
C3_Witness ==
  \/ /\ op = "+"
     /\ log[1].cls = "Add"
     /\ Len(log[1].kern_list) = 3
     /\ Len(Top.kern_list) = 4
  \/ /\ op = "*"
     /\ log[1].cls = "Add"
     /\ Len(Top.kern_list) = 2
     /\ Top.kern_list[1] = log[1]

\* the rank of the i-th kernel among the kernels of its class
Occurrence(kern_list, i) ==
  Cardinality({j \in 1..i : kern_list[j].cls = kern_list[i].cls})
\* how many kernels of kern_list have the class of the i-th
Occurrences(kern_list, i) ==
  Cardinality({j \in 1..Len(kern_list) : kern_list[j].cls = kern_list[i].cls})

\* C4: the names of a combination's children: one per child in order, the
\* bare lower-cased class name for a class that occurs once, <class>_k for
\* the k-th child of a class that occurs more than once, all distinct.
C4_NamesAreNumbered ==
  Combined =>
    LET kern_list == Top.kern_list
        names     == Top.names
    IN /\ names = make_kernel_names(kern_list)
       /\ Len(names) = Len(kern_list)
       /\ \A i \in 1..Len(names) :
            names[i] = IF Occurrences(kern_list, i) = 1 THEN RawName(kern_list[i])
                       ELSE RawName(kern_list[i]) \o "_"
                              \o ToString(Occurrence(kern_list, i))
       /\ \A i, j \in 1..Len(names) : i # j => names[i] # names[j]

\* RBF, Linear, RBF
C4_Witness ==
  /\ Combined
  /\ [i \in 1..Len(Top.kern_list) |-> Top.kern_list[i].cls] = <<"RBF", "Linear", "RBF">>
  /\ Top.names = <<"rbf_1", "linear", "rbf_2">>

\* the largest column index a child is said to touch
TouchedIndex(k) ==
  IF IsSlice(k.active_dims) THEN k.input_dim - 1 ELSE MaxSeq(k.active_dims.dims)

\* C5 (as claimed): the input_dim of a combination is the maximum touched
\* column index over its operands, a slice child counting input_dim - 1 and
\* an explicit-index child max(active_dims).
C5_InputDimIsMaxIndex ==
  Combined => Top.input_dim = MaxSeq([i \in 1..Len(log) |-> TouchedIndex(log[i])])

\* C5 (amended): the input_dim of a combination is the maximum over its
\* operands of input_dim for a slice child, whatever columns the slice
\* selects, and of max(active_dims) + 1 for an explicit-index child.
C5_InputDimIsMaxCount ==
  Combined =>
    Top.input_dim = MaxSeq([i \in 1..Len(log) |-> TouchedIndex(log[i]) + 1])

\* a slice child that reads column 1 and counts 1, its own input_dim, next
\* to an explicit-index child on column 1, which decides: input_dim 2
C5_Witness ==
  /\ Combined
  /\ \E i \in 1..Len(log) :
       /\ ~IsSlice(log[i].active_dims)
       /\ log[i].active_dims.dims = <<1>>
       /\ log[i].input_dim = 1
  /\ \E i \in 1..Len(log) :
       /\ IsSlice(log[i].active_dims)
       /\ log[i].active_dims.slice = [start |-> 1, stop |-> 2]
       /\ log[i].input_dim = 1
  /\ \A i \in 1..Len(log) : log[i].input_dim = 1
  /\ Top.input_dim = 2

---------------------------------------------------------------------------
(* Construction of one kernel from its arguments, and _slice on its inputs. *)

WidestInput == Len(Data[1])

\* active_dims arguments: omitted, slices with a stop, index lists
ActiveDimsArgs ==
  {NoDims,
   [slice |-> [stop |-> 2]],
   [slice |-> [start |-> 0, stop |-> 3]],
   [slice |-> [start |-> 1, stop |-> 3]],
   [slice |-> [stop |-> 4, step |-> 2]],
   [slice |-> [start |-> 0, stop |-> 2, step |-> 1]],
   [dims |-> <<0>>],
   [dims |-> <<0, 1>>],
   [dims |-> <<2, 0>>],
   [dims |-> <<1, 3>>],
   [dims |-> <<0, 1, 2>>]}

InputDimArgs == 1..3

InitSlice ==
  /\ kern = None
  /\ op = "init"
  /\ out = Ok(None)
  /\ X = None
  /\ X2 = None
  /\ device \in Devices
  /\ stack = <<>>
  /\ quadrature = "warn"
  /\ Xcov = NoCov
  /\ log = <<>>

\* RBF(input_dim, active_dims=...): the kernel, or the constructor's error
Construct ==
  /\ op = "init"
  /\ \E input_dim \in InputDimArgs, active_dims \in ActiveDimsArgs :
       LET made == RBF(input_dim, 1, active_dims)
       IN /\ out' = made
          /\ kern' = IF IsOk(made) THEN made.val ELSE None
  /\ op' = "__init__"
  /\ UNCHANGED <<X, X2, device, stack, quadrature, log, Xcov>>

\* kern._slice(X, X2)
CallSlice ==
  /\ op = "__init__"
  /\ kern # None
  /\ \E x \in Inputs, x2 \in {None} \cup Inputs :
       /\ X' = x
       /\ X2' = x2
       /\ out' = Slice(kern, x, x2)
  /\ op' = "_slice"
  /\ UNCHANGED <<kern, device, stack, quadrature, log, Xcov>>

NextSlice == Construct \/ CallSlice
SpecSlice == InitSlice /\ [][NextSlice]_vars

\* the number of columns active_dims selects from an input wide enough to
\* hold them all
SelectedColumns(active_dims) ==
  IF IsSlice(active_dims) THEN Len(SliceIndices(active_dims.slice, WidestInput))
  ELSE Len(active_dims.dims)

\* C6 (as claimed): every kernel that is constructed selects exactly
\* input_dim columns with its active_dims, whether these were omitted, an
\* index list or a slice with only some of start, stop, step set; any other
\* construction is rejected.
C6_ActiveDimsMatchInputDim ==
  (op = "__init__" /\ IsOk(out)) => SelectedColumns(kern.active_dims) = kern.input_dim

\* C7 (as claimed): _slice fails, or returns X and (when given) X2 with
\* exactly input_dim columns each.
C7_SliceReturnsInputDimColumns ==
  (op = "_slice" /\ IsOk(out)) =>
    /\ NCols(out.val[1]) = kern.input_dim
    /\ X2 # None => NCols(out.val[2]) = kern.input_dim

---------------------------------------------------------------------------
(* Expectations by quadrature.  quadrature is settings.numerics.
   ekern_quadrature; log records, in order, what a call does: "warn" for
   the warning, "raise" for the RuntimeError of _check_quadrature, then the
   calls it makes.  mvnquad itself lies outside kernels.py: out holds what
   it is handed, the integrand as its value at the means. *)

Policies == {"warn", "error", "allow"}
PointCounts == {0, 1, DefaultGaussHermitePoints}
QuadKernels ==
  {kRBF2, kRBFcol, kRBFslice, kRBFpair, kLinear2, kWhite, kCoregion2, kAddRBFWhite,
   kAddSliceWhite}

\* A gate that looks at the policy only
CheckQuadraturePolicyOnly(self) ==
  (IF quadrature = "warn" THEN <<"warn">> ELSE <<>>)
    \o (IF quadrature = "error" THEN <<"raise">> ELSE <<>>)

\* Kern._check_quadrature: the events it produces
CheckQuadrature(self) ==
  (IF quadrature = "warn" THEN <<"warn">> ELSE <<>>)
    \o (IF quadrature = "error" \/ self.num_gauss_hermite_points = 0
        THEN <<"raise">> ELSE <<>>)

Raised(events) == events # <<>> /\ events[Len(events)] = "raise"

\* Covariance arguments of eKdiag, eKxz and eKzxKxz for N points in D
\* dimensions, every entry standing for itself: the full form N x D x D
\* with entries <<n, a, b>> and the diagonal form N x D with entries <<n, a>>
\* (0-based).
SymbolicCov(N, D) ==
  [rank |-> 3, t |-> [n \in 1..N |-> [a \in 1..D |-> [b \in 1..D |->
                        <<n - 1, a - 1, b - 1>>]]]]
SymbolicDiag(N, D) ==
  [rank |-> 2, t |-> [n \in 1..N |-> [a \in 1..D |-> <<n - 1, a - 1>>]]]
CovForms == {"full", "diagonal"}
CovFor(form, Xmu) ==
  IF form = "full" THEN SymbolicCov(Len(Xmu), NCols(Xmu))
  ELSE SymbolicDiag(Len(Xmu), NCols(Xmu))

\* eKdiag, eKxz and eKzxKxz after the gate: _slice, _slice_cov, mvnquad;
\* the result holds what mvnquad is called with: the sliced means and Z,
\* the sliced covariances and the integrand, here at the sliced means
\* The three steps are always taken: a width or index that does not fit
\* fails when the graph is run, a call that Python refuses (TypeError) when
\* mvnquad builds the integrand, which is before.
SlicedBody(sliced, cov, value) ==
  [events |-> <<"_slice", "_slice_cov", "mvnquad">>,
   result |-> IF value = Err("TypeError") THEN value
              ELSE IF IsErr(sliced) THEN sliced
              ELSE IF IsErr(cov) THEN cov
              ELSE IF IsErr(value) THEN value
              ELSE Ok([Xmu |-> sliced.val[1], Z |-> sliced.val[2],
                       Xcov |-> cov.val, value |-> value.val])]

\* a matrix of the rows of x and self.input_dim columns
Blank(self, x) ==
  IF x = None THEN None ELSE [n \in 1..Len(x) |-> [c \in 1..self.input_dim |-> 0]]

\* The points the integrand is built on: mvnquad hands the lambda points of
\* self.input_dim columns; they are the sliced means here, and blank when
\* _slice fails, which the graph finds only when it is run.
BuildPoints(self, sliced, Xmu, Z) ==
  IF IsOk(sliced) THEN sliced ELSE Ok(<<Blank(self, Xmu), Blank(self, Z)>>)

\* lambda x: self.Kdiag(x, presliced=True)
eKdiagIntegrand(self, sliced) == Kdiag(self, sliced.val[1], "True")

\* lambda x: self.K(x, Z, presliced=True)
eKxzIntegrand(self, sliced) == K(self, sliced.val[1], sliced.val[2], "True")

\* tf.expand_dims(Kxz, 2) * tf.expand_dims(Kxz, 1) for a result Kxz of K
KzxKxz(Kxz) ==
  IF IsErr(Kxz) THEN Kxz
  ELSE Ok([n \in 1..Len(Kxz.val) |-> [m \in 1..Len(Kxz.val[n]) |->
             [l \in 1..Len(Kxz.val[n]) |-> VMul(Kxz.val[n][m], Kxz.val[n][l])]]])

eKdiagBody(self, Xmu, cov) ==
  SlicedBody(Slice(self, Xmu, None), SliceCov(self, cov),
             eKdiagIntegrand(self, BuildPoints(self, Slice(self, Xmu, None), Xmu, None)))
eKxzBody(self, Z, Xmu, cov) ==
  SlicedBody(Slice(self, Xmu, Z), SliceCov(self, cov),
             eKxzIntegrand(self, BuildPoints(self, Slice(self, Xmu, Z), Xmu, Z)))
eKzxKxzBody(self, Z, Xmu, cov) ==
  SlicedBody(Slice(self, Xmu, Z), SliceCov(self, cov),
             KzxKxz(eKxzIntegrand(self, BuildPoints(self, Slice(self, Xmu, Z), Xmu, Z))))

\* A covariance argument of exKxz for N points in D dimensions, shape
\* 2 x N x D x D, every entry standing for itself: entry [s, t, a, b] is the
\* tuple <<s, t, a, b>> (0-based).
SymbolicXcov(N, D) ==
  [s \in 1..2 |-> [t \in 1..N |-> [a \in 1..D |-> [b \in 1..D |->
     <<s - 1, t - 1, a - 1, b - 1>>]]]]

\* fXcov of exKxz: for each pair of consecutive points the 2D x 2D matrix
\* [[Xcov[0, t], Xcov[1, t]], [Xcov[1, t]^T, Xcov[0, t + 1]]]
JoinCov(cov, T, D) ==
  LET fXcovt == [t \in 1..T |-> [a \in 1..D |->
                   [b \in 1..(2 * D) |-> IF b <= D THEN cov[1][t][a][b]
                                         ELSE cov[2][t][a][b - D]]]]
      fXcovb == [t \in 1..T |-> [a \in 1..D |->
                   [b \in 1..(2 * D) |-> IF b <= D THEN cov[2][t][b][a]
                                         ELSE cov[1][t + 1][a][b - D]]]]
  IN [t \in 1..T |-> fXcovt[t] \o fXcovb[t]]

\* tf.expand_dims(Kxz, 2) * tf.expand_dims(tail, 1) for a result Kxz of K
OuterProduct(Kxz, tail) ==
  IF IsErr(Kxz) THEN Kxz
  ELSE Ok([t \in 1..Len(tail) |-> [m \in 1..Len(Kxz.val[t]) |->
             [d \in 1..Len(tail[t]) |-> VScale(tail[t][d], Kxz.val[t][m])]]])

\* the function exKxz hands to mvnquad, at x (one row per pair, 2D columns):
\* tf.expand_dims(self.K(x[:, :D], Z), 2) * tf.expand_dims(x[:, D:], 1)
\* A matrix without rows keeps no column count here: K is then evaluated on
\* one row of D zeros, which raises what the D columns and Z raise, and its
\* rows are dropped.
exKxzIntegrand(self, Z, x, D) ==
  OuterProduct(K(self, IF x = <<>> THEN <<[c \in 1..D |-> 0]>>
                       ELSE [t \in 1..Len(x) |-> SubSeq(x[t], 1, D)], Z, "omitted"),
               [t \in 1..Len(x) |-> SubSeq(x[t], D + 1, 2 * D)])

\* what mvnquad is called with by exKxz: the joint means, the joint
\* covariances and the integrand at the joint means
exKxzQuadrature(fXmu, fXcov, value) ==
  IF IsErr(value) THEN value
  ELSE Ok([fXmu |-> fXmu, fXcov |-> fXcov, value |-> value.val])

\* the result of exKxz: a call that Python refuses while the integrand is
\* built comes before the width assert, which fails when the graph is run
exKxzResult(fits, fXmu, fXcov, value) ==
  IF value = Err("TypeError") THEN value
  ELSE IF ~fits THEN Err("ShapeError")
  ELSE exKxzQuadrature(fXmu, fXcov, value)

\* exKxz does not slice: it asserts the width of Xmu and joins consecutive
\* rows into fXmu and their covariances into fXcov, which mvnquad works on;
\* the integrand is built on points of 2D columns, blank when Xmu does not
\* have D of them
exKxzBody(self, Z, Xmu, cov) ==
  LET D     == self.input_dim
      T     == Len(Xmu) - 1
      fits  == NCols(Xmu) = D
      fXmu  == [t \in 1..T |-> IF fits THEN Xmu[t] \o Xmu[t + 1]
                               ELSE [c \in 1..(2 * D) |-> 0]]
      fXcov == IF fits THEN JoinCov(cov, T, D) ELSE <<>>
  IN [events |-> <<"assert_equal", "mvnquad">>,
      result |-> exKxzResult(fits, fXmu, fXcov, exKxzIntegrand(self, Z, fXmu, D))]

\* one expectation call: the gate, then the body unless the gate raised
Expectation(name, body) ==
  LET gate == CheckQuadrature(kern)
  IN /\ op' = name
     /\ log' = IF Raised(gate) THEN gate ELSE gate \o body.events
     /\ out' = IF Raised(gate) THEN Err("RuntimeError") ELSE body.result

InitQuad ==
  /\ kern \in QuadKernels
  /\ quadrature \in Policies
  /\ op = "init"
  /\ out = Ok(None)
  /\ X = None
  /\ X2 = None
  /\ log = <<>>
  /\ device = "cpu"
  /\ stack = <<>>
  /\ Xcov = NoCov

\* no call is in progress
Idle == op \in {"init", "settings"}

\* settings.numerics.ekern_quadrature = policy
SetPolicy ==
  /\ \E policy \in Policies : quadrature' = policy
  /\ op' = "settings"
  /\ out' = Ok(None)
  /\ X' = None
  /\ X2' = None
  /\ log' = <<>>
  /\ Xcov' = NoCov
  /\ UNCHANGED <<kern, device, stack>>

\* kern.num_gauss_hermite_points = points
SetPoints ==
  /\ \E points \in PointCounts : kern' = [kern EXCEPT !.num_gauss_hermite_points = points]
  /\ op' = "settings"
  /\ out' = Ok(None)
  /\ X' = None
  /\ X2' = None
  /\ log' = <<>>
  /\ Xcov' = NoCov
  /\ UNCHANGED <<quadrature, device, stack>>

eKdiag ==
  /\ Idle
  /\ \E Xmu \in Inputs : \E form \in CovForms :
       /\ X' = Xmu
       /\ X2' = None
       /\ Xcov' = CovFor(form, Xmu)
       /\ Expectation("eKdiag", eKdiagBody(kern, Xmu, CovFor(form, Xmu)))
  /\ UNCHANGED <<kern, quadrature, device, stack>>

eKxz ==
  /\ Idle
  /\ \E Xmu \in Inputs : \E Z \in InputsOfWidth(NCols(Xmu)) : \E form \in CovForms :
       /\ X' = Xmu
       /\ X2' = Z
       /\ Xcov' = CovFor(form, Xmu)
       /\ Expectation("eKxz", eKxzBody(kern, Z, Xmu, CovFor(form, Xmu)))
  /\ UNCHANGED <<kern, quadrature, device, stack>>

exKxz ==
  /\ Idle
  /\ \E Xmu \in Inputs : \E Z \in InputsOfWidth(NCols(Xmu)) :
       /\ X' = Xmu
       /\ X2' = Z
       /\ Xcov' = [rank |-> 4, t |-> SymbolicXcov(Len(Xmu), NCols(Xmu))]
       /\ Expectation("exKxz",
                      exKxzBody(kern, Z, Xmu, SymbolicXcov(Len(Xmu), NCols(Xmu))))
  /\ UNCHANGED <<kern, quadrature, device, stack>>

eKzxKxz ==
  /\ Idle
  /\ \E Xmu \in Inputs : \E Z \in InputsOfWidth(NCols(Xmu)) : \E form \in CovForms :
       /\ X' = Xmu
       /\ X2' = Z
       /\ Xcov' = CovFor(form, Xmu)
       /\ Expectation("eKzxKxz", eKzxKxzBody(kern, Z, Xmu, CovFor(form, Xmu)))
  /\ UNCHANGED <<kern, quadrature, device, stack>>

NextQuad == SetPolicy \/ SetPoints \/ eKdiag \/ eKxz \/ exKxz \/ eKzxKxz
SpecQuad == InitQuad /\ [][NextQuad]_vars

ExpectationOps == {"eKdiag", "eKxz", "exKxz", "eKzxKxz"}
Refused == quadrature = "error" \/ kern.num_gauss_hermite_points = 0
GateEvents == {"warn", "raise"}

\* C8: each expectation consults the policy first.  Under "error", or with
\* num_gauss_hermite_points = 0 under any policy, it fails with the
\* RuntimeError and does nothing else; under "warn" with points left it
\* warns once and goes on; under any other policy with points left it goes
\* on without a warning.
C8_QuadratureGate ==
  op \in ExpectationOps =>
    /\ Refused =>
         /\ out = Err("RuntimeError")
         /\ \A i \in 1..Len(log) : log[i] \in GateEvents
         /\ log[Len(log)] = "raise"
    /\ (~Refused /\ quadrature = "warn") =>
         /\ out # Err("RuntimeError")
         /\ Len(log) >= 2
         /\ log[1] = "warn"
         /\ \A i \in 2..Len(log) : log[i] \notin GateEvents
    /\ (~Refused /\ quadrature # "warn") =>
         /\ out # Err("RuntimeError")
         /\ log # <<>>
         /\ \A i \in 1..Len(log) : log[i] \notin GateEvents

\* a refusal for a zero point count alone, and a call that warns and then
\* integrates
C8_Witness ==
  \/ /\ op = "eKxz"
     /\ quadrature = "allow"
     /\ kern.num_gauss_hermite_points = 0
     /\ out = Err("RuntimeError")
     /\ log = <<"raise">>
  \/ /\ op = "eKzxKxz"
     /\ quadrature = "warn"
     /\ kern.num_gauss_hermite_points = 1
     /\ log = <<"warn", "_slice", "_slice_cov", "mvnquad">>
     /\ IsOk(out)

---------------------------------------------------------------------------
(* Claims about the differential kernels (checked under SpecEval). *)

IsDynamic(k) == k.cls = "DifferentialObservationsKernelDynamic"
IsPreDefined(k) == k.cls = "DifferentialObservationsKernelPreDefined"

\* the decoded rows <<count, index, index>> of the two inputs of a call
DecodedLeft == ConvertGradInfo(SplitGradInfo(kern, X))
DecodedRight == ConvertGradInfo(SplitGradInfo(kern, Right(X, X2)))

\* the base kernel differentiated in the dimensions left at the left point
\* and right at the right point; the raw value when there are none
Differentiated(base, raw, x, y, left, right) ==
  IF left = <<>> /\ right = <<>> THEN raw
  ELSE DerivValue(base, x, y, AsVars("l", left, Len(x)) \o AsVars("r", right, Len(y))).val

\* C11: in the dynamic layout, for decoded counts l, r in {0, 1, 2}, at most
\* one predicate of the dispatch holds, exactly one unless l = r = 0, and the
\* entry is the base kernel differentiated l times at the left point in the
\* first l decoded left dimensions and r times at the right point in the
\* first r decoded right dimensions; it is the raw value when l = r = 0.
C11_DispatchIsExclusive ==
  (op = "K" /\ IsDynamic(kern) /\ IsOk(out)) =>
    \A i \in 1..Len(X) : \A j \in 1..Len(Right(X, X2)) :
      LET dl == DecodedLeft[i]
          dr == DecodedRight[j]
          raw == K(kern.base_kernel, SplitLocs(kern, X),
                   SplitLocs(kern, Right(X, X2)), "omitted").val[i][j]
      IN (dl[1] \in 0..2 /\ dr[1] \in 0..2) =>
           /\ Cardinality(CaseHits(dl, dr)) <= 1
           /\ (CaseHits(dl, dr) = {}) <=> (dl[1] = 0 /\ dr[1] = 0)
           /\ CaseDerivs(dl, dr).left = SubSeq(<<dl[2], dl[3]>>, 1, dl[1])
           /\ CaseDerivs(dl, dr).right = SubSeq(<<dr[2], dr[3]>>, 1, dr[1])
           /\ out.val[i][j] =
                Differentiated(kern.base_kernel, raw, SplitLocs(kern, X)[i],
                               SplitLocs(kern, Right(X, X2))[j],
                               SubSeq(<<dl[2], dl[3]>>, 1, dl[1]),
                               SubSeq(<<dr[2], dr[3]>>, 1, dr[1]))

\* a point differentiated in dimensions 0 and 1 against a point
\* differentiated once, with an entry that is not the raw value
C11_Witness ==
  /\ op = "K"
  /\ IsDynamic(kern)
  /\ kern.obs_dims = 2
  /\ NCols(X) = kern.input_dim
  /\ IsOk(out)
  /\ X2 # None
  /\ \E i \in 1..Len(X) : \E j \in 1..Len(X2) :
       /\ DecodedLeft[i] = <<2, 0, 1>>
       /\ DecodedRight[j][1] = 1
       /\ out.val[i][j] #
            K(kern.base_kernel, SplitLocs(kern, X), SplitLocs(kern, X2), "omitted").val[i][j]

\* the descriptor rows a call of the static layout uses on each side
InfoLeft == kern.deriv_info_x
InfoRight == IF X2 = None THEN kern.deriv_info_x ELSE kern.deriv_info_x2

\* C12 (as claimed): in the static layout entry (i, j) is the base kernel
\* value differentiated, in order, in the dimensions listed in row i of X's
\* descriptor and then in those listed in row j of X2's descriptor, the
\* number of derivatives on each side being the count in column 0; with X2
\* omitted the right descriptor is X's own.
C12_StaticEntryFollowsDescriptor ==
  (op = "K" /\ IsPreDefined(kern) /\ IsOk(out)) =>
    \A i \in 1..Len(X) : \A j \in 1..Len(Right(X, X2)) :
      LET left == InfoLeft[i]
          right == InfoRight[j]
          raw == K(kern.base_kernel, X, Right(X, X2), "omitted").val[i][j]
      IN /\ left[1] <= Len(Tail(left))
         /\ right[1] <= Len(Tail(right))
         /\ out.val[i][j] =
              Differentiated(kern.base_kernel, raw, X[i], Right(X, X2)[j],
                             SubSeq(Tail(left), 1, left[1]),
                             SubSeq(Tail(right), 1, right[1]))

\* how many of the first count indices of a decoded row are dimension d
TimesListed(decoded, d) ==
  Cardinality({p \in 1..decoded[1] : decoded[1 + p] = d})

\* C19: for a mask row of non-negative entries that sum to 2 or less,
\* _convert_grad_info_into_indics returns a count equal to the sum, and the
\* first count indices are the flagged dimensions, each as many times as the
\* mask says: [0, 1] gives count 1 and index 1, [2, 0] count 2 and indices
\* 0, 0, and [1, 1] count 2 and indices 0, 1.
C19_DecodedMaskListsFlaggedDims ==
  (IsDynamic(kern) /\ op \in {"K", "Kdiag"}) =>
    \A n \in 1..Len(X) :
      LET mask    == SplitGradInfo(kern, X)[n]
          decoded == DecodedLeft[n]
      IN ((\A d \in 1..Len(mask) : mask[d] >= 0) /\ SumSeq(mask) <= 2) =>
           /\ decoded[1] = SumSeq(mask)
           /\ \A d \in 1..Len(mask) : TimesListed(decoded, d - 1) = mask[d]
           /\ mask = <<0, 1>> => decoded[1] = 1 /\ decoded[2] = 1
           /\ mask = <<2, 0>> => decoded = <<2, 0, 0>>
           /\ mask = <<1, 1>> => decoded = <<2, 0, 1>>

\* a call on two rows with the masks [2, 0] and [0, 1]
C19_Witness ==
  /\ IsDynamic(kern) /\ op = "K" /\ IsOk(out)
  /\ Len(X) = 2
  /\ SplitGradInfo(kern, X) = <<<<2, 0>>, <<0, 1>>>>
  /\ DecodedLeft[1] = <<2, 0, 0>>
  /\ DecodedLeft[2][1] = 1 /\ DecodedLeft[2][2] = 1

---------------------------------------------------------------------------
(* Claims about every kernel (checked under SpecEval). *)

\* C17: K(X), called without a second argument, is symmetric:
\* K(X)[i, j] = K(X)[j, i] for all i and j, for every kernel: the leaves,
\* Coregion, sums and products, and the differential kernels, which then
\* use the descriptor of X on both sides.
C17_KIsSymmetric ==
  (op = "K" /\ X2 = None /\ IsOk(out)) =>
    /\ Len(out.val) = Len(X)
    /\ \A i \in 1..Len(X) :
         /\ Len(out.val[i]) = Len(X)
         /\ \A j \in 1..Len(X) : out.val[i][j] = out.val[j][i]

\* a differential kernel on two different rows, more derivatives taken at
\* one than at the other, with entries that are neither zero nor all alike
C17_Witness ==
  /\ op = "K" /\ X2 = None /\ IsOk(out)
  /\ IsDifferential(kern)
  /\ Len(X) = 2 /\ X[1] # X[2]
  /\ CountsFit(kern, X, X2)
  /\ CountsLeft(kern, X)[1] # CountsLeft(kern, X)[2]
  /\ out.val[1][2] # VInt(0)
  /\ out.val[1][2] # out.val[1][1]
  /\ out.val[1][2] = out.val[2][1]

---------------------------------------------------------------------------
(* Claims about the instances a combination refers to (checked under
   SpecBuild).  An instance is told from the others by the leaves it was
   built on: the leaves alive are numbered from the bottom of the stack, a
   leaf is <<p, p>> and a combination is <<first leaf, last leaf>>; every
   combination is built on two or more leaves, and a combination built on
   the whole of another is built on more.  After a combination is made its
   operands still exist: log holds them, on the leaves the result is on. *)

Ident(k, first) == <<first, first + Leaves(k) - 1>>

\* the first leaf of child j of k, when k starts at leaf first
ChildStart(k, first, j) == first + SumSeq([i \in 1..(j - 1) |-> Leaves(k.kern_list[i])])

RECURSIVE Combinations(_, _)
\* the combinations in k, each with the instances in its kern_list
Combinations(k, first) ==
  IF IsCombination(k)
  THEN {[id |-> Ident(k, first),
         kern_list |-> [j \in 1..Len(k.kern_list) |->
                          Ident(k.kern_list[j], ChildStart(k, first, j))]]}
       \cup UNION {Combinations(k.kern_list[j], ChildStart(k, first, j)) :
                     j \in 1..Len(k.kern_list)}
  ELSE {}

StackStart(s) == 1 + SumSeq([i \in 1..(s - 1) |-> Leaves(stack[i])])
OperandStart(i) == StackStart(Len(stack)) + SumSeq([j \in 1..(i - 1) |-> Leaves(log[j])])

\* every combination in existence: those built and their latest operands
Alive ==
  UNION {Combinations(stack[s], StackStart(s)) : s \in 1..Len(stack)}
    \cup UNION {Combinations(log[i], OperandStart(i)) : i \in 1..Len(log)}

\* the places (combination, position) where instance c is a child
References(c) ==
  {ref \in UNION {{<<o.id, j>> : j \in 1..Len(o.kern_list)} : o \in Alive} :
     \E o \in Alive : o.id = ref[1] /\ o.kern_list[ref[2]] = c}

\* C16 (as claimed): after a combination is constructed, every instance that
\* is a child is in the kern_list of one combination only, and once in it:
\* a combination that was flattened and the one that took its children over
\* share none.
C16_ChildrenAreExclusive ==
  Combined =>
    \A o \in Alive : \A j \in 1..Len(o.kern_list) :
      Cardinality(References(o.kern_list[j])) = 1

\* the set of columns an explicit-index kernel is active on
IndexSet(k) == {k.active_dims.dims[a] : a \in 1..Len(k.active_dims.dims)}

\* C18: on_separate_dimensions is false whenever a child has a slice as
\* active_dims; when every child has an explicit index list it is true
\* exactly when the index sets of every two distinct children are disjoint.
C18_SeparateMeansDisjoint ==
  op = "on_separate_dimensions" =>
    LET children == Top.kern_list
    IN out.val =
         IF \E i \in 1..Len(children) : IsSlice(children[i].active_dims)
         THEN FALSE
         ELSE \A i, j \in 1..Len(children) :
                i # j => IndexSet(children[i]) \cap IndexSet(children[j]) = {}

\* three children on [1], [0, 2] and [2]: the last two share column 2
C18_Witness ==
  /\ op = "on_separate_dimensions"
  /\ Len(Top.kern_list) = 3
  /\ \A i \in 1..3 : ~IsSlice(Top.kern_list[i].active_dims)
  /\ IndexSet(Top.kern_list[1]) = {1}
  /\ IndexSet(Top.kern_list[2]) = {0, 2}
  /\ IndexSet(Top.kern_list[3]) = {2}
  /\ out = Ok(FALSE)

---------------------------------------------------------------------------
(* Claims about the Coregion kernel (checked under SpecEval). *)

\* entry (o, u), 0-based, of W W^T + diag(kappa)
EntryOfB(k, o, u) ==
  SumSeq([r \in 1..k.rank |-> k.W[o + 1][r] * k.W[u + 1][r]])
    + (IF o = u THEN k.kappa[o + 1] ELSE 0)

\* the category of row n of x: its only active column
Category(x, n) == x[n][1]

\* C15: for a Coregion kernel and categories within 0..output_dim-1,
\* K(X, X2)[n, m] is B[X[n], X2[m]] (X2 defaulting to X) and Kdiag(X)[n] is
\* B[X[n], X[n]], with B = W W^T + diag(kappa); W = [[1], [0]],
\* kappa = [1, 1] and X = [[0], [1]] give K(X) = [[2, 0], [0, 1]].
C15_CoregionIndexesB ==
  (kern.cls = "Coregion" /\ IsOk(out)
     /\ \A n \in 1..Len(X) : Category(X, n) \in 0..(kern.output_dim - 1)
     /\ \A m \in 1..Len(X2) : Category(X2, m) \in 0..(kern.output_dim - 1)) =>
    /\ op = "K" =>
         /\ Len(out.val) = Len(X)
         /\ \A n \in 1..Len(X) :
              /\ Len(out.val[n]) = Len(Right(X, X2))
              /\ \A m \in 1..Len(Right(X, X2)) :
                   out.val[n][m] =
                     VInt(EntryOfB(kern, Category(X, n), Category(Right(X, X2), m)))
    /\ op = "Kdiag" =>
         out.val = [n \in 1..Len(X) |->
                      VInt(EntryOfB(kern, Category(X, n), Category(X, n)))]
    /\ (op = "K" /\ kern.W = <<<<1>>, <<0>>>> /\ kern.kappa = <<1, 1>>
          /\ X = <<<<0>>, <<1>>>> /\ X2 = None) =>
         out.val = <<<<VInt(2), VInt(0)>>, <<VInt(0), VInt(1)>>>>

C15_Witness ==
  /\ kern.cls = "Coregion" /\ kern.W = <<<<1>>, <<0>>>> /\ kern.kappa = <<1, 1>>
  /\ op = "K" /\ X = <<<<0>>, <<1>>>> /\ X2 = None
  /\ out = Ok(<<<<VInt(2), VInt(0)>>, <<VInt(0), VInt(1)>>>>)

---------------------------------------------------------------------------
(* Claims about the expectations (checked under SpecQuad). *)

\* C13 (as claimed): exKxz on T + 1 means gives one result per consecutive
\* pair; for pair t the kernel is evaluated at the later point x_t and the
\* outer-product factor is the earlier point x_{t-1}; the joint mean is
\* (x_{t-1}, x_t), the joint covariance has Xcov[0] on the diagonal and
\* Xcov[1] and its transpose off it; Xmu and Xcov are not sliced.
C13_exKxzPairsEarlierWithLater ==
  (op = "exKxz" /\ IsOk(out)) =>
    LET T == Len(X) - 1
        D == NCols(X)
    IN /\ Len(out.val.value) = T
       /\ \A t \in 1..T :
            /\ out.val.fXmu[t] = X[t] \o X[t + 1]
            /\ \A a, b \in 1..D :
                 /\ out.val.fXcov[t][a][b] = <<0, t - 1, a - 1, b - 1>>
                 /\ out.val.fXcov[t][a][D + b] = <<1, t - 1, a - 1, b - 1>>
                 /\ out.val.fXcov[t][D + a][b] = <<1, t - 1, b - 1, a - 1>>
                 /\ out.val.fXcov[t][D + a][D + b] = <<0, t, a - 1, b - 1>>
            /\ \A m \in 1..Len(X2) : \A d \in 1..D :
                 out.val.value[t][m][d] =
                   VScale(X[t][d], K(kern, <<X[t + 1]>>, X2, "omitted").val[1][m])

\* C14 (as claimed): K and Kdiag of every concrete kernel take the presliced
\* keyword, so the calls the expectations make, Kdiag(x, presliced=True) in
\* eKdiag and K(x, Z, presliced=True) in eKxz and eKzxKxz, are accepted by
\* the kernel and never fail for the keyword.
C14_PreslicedIsAccepted ==
  (op \in {"eKdiag", "eKxz", "eKzxKxz"} /\ ~Refused) => out # Err("TypeError")

\* the columns a kernel is active on, for inputs of D columns
ActiveColumns(k, D) ==
  IF IsSlice(k.active_dims) THEN SliceIndices(k.active_dims.slice, D)
  ELSE k.active_dims.dims

\* entry (n, a, b), 1-based, of a covariance argument, a diagonal one read as
\* the diagonal matrix it stands for
CovEntry(cov, n, a, b) ==
  IF cov.rank = 3 THEN cov.t[n][a][b]
  ELSE IF a = b THEN cov.t[n][a] ELSE Zero

\* the same kernel with its active columns given the other way: a slice as
\* the list of the columns it selects, a list of consecutive columns as the
\* slice from the first to the last
OtherWay(k, D) ==
  IF IsSlice(k.active_dims)
  THEN [k EXCEPT !.active_dims = [dims |-> SliceIndices(k.active_dims.slice, D)]]
  ELSE IF \A a \in 1..Len(k.active_dims.dims) :
            k.active_dims.dims[a] = k.active_dims.dims[1] + a - 1
  THEN [k EXCEPT !.active_dims =
          [slice |-> [start |-> k.active_dims.dims[1],
                      stop |-> k.active_dims.dims[1] + Len(k.active_dims.dims)]]]
  ELSE k

\* the same kernel on all of its input_dim columns
OnAllColumns(k) == [k EXCEPT !.active_dims = [slice |-> [stop |-> k.input_dim]]]

\* C20: slicing selects the active columns in order: _slice(X)[n, a] is
\* X[n, dims[a]] and _slice_cov(cov)[n, a, b] is cov[n, dims[a], dims[b]], a
\* diagonal N x D covariance first expanded to diagonal matrices; a slice and
\* the list of the same columns give the same results; and the kernel on the
\* full inputs equals the kernel without active_dims on the selected columns.
C20_SlicingSelectsActiveColumns ==
  (op \in {"eKdiag", "eKxz", "eKzxKxz"} /\ IsOk(out)) =>
    LET dims == ActiveColumns(kern, NCols(X))
    IN /\ out.val.Xmu = [n \in 1..Len(X) |-> [a \in 1..Len(dims) |-> X[n][dims[a] + 1]]]
       /\ out.val.Z = [m \in 1..Len(X2) |-> [a \in 1..Len(dims) |-> X2[m][dims[a] + 1]]]
       /\ out.val.Xcov =
            [n \in 1..Len(X) |-> [a \in 1..Len(dims) |-> [b \in 1..Len(dims) |->
               CovEntry(Xcov, n, dims[a] + 1, dims[b] + 1)]]]
       /\ Slice(OtherWay(kern, NCols(X)), X, X2) = Ok(<<out.val.Xmu, out.val.Z>>)
       /\ SliceCov(OtherWay(kern, NCols(X)), Xcov) = Ok(out.val.Xcov)
       /\ op = "eKxz" =>
            /\ K(kern, X, X2, "omitted") = Ok(out.val.value)
            /\ K(OnAllColumns(kern), out.val.Xmu, out.val.Z, "omitted") = Ok(out.val.value)

\* RBF on the columns [0, 2] of two points in four dimensions, with diagonal
\* covariances
C20_Witness ==
  /\ op = "eKxz" /\ IsOk(out)
  /\ kern.active_dims = [dims |-> <<0, 2>>]
  /\ Len(X) = 2 /\ NCols(X) = 4 /\ Len(X2) = 2
  /\ Xcov.rank = 2
  /\ out.val.Xmu = <<<<X[1][1], X[1][3]>>, <<X[2][1], X[2][3]>>>>
  /\ out.val.Xcov[2] = <<<<<<1, 0>>, Zero>>, <<Zero, <<1, 2>>>>>>

\* the columns of a D-column input that some child of a combination reads
ColumnsRead(k, D) ==
  UNION {{ActiveCols(k.kern_list[i], D)[a] : a \in 1..Len(ActiveCols(k.kern_list[i], D))} :
           i \in 1..Len(k.kern_list)}

\* C21 (as claimed): for a combination, every column a child reads lies
\* below the combination's input_dim, so the expectations, which narrow the
\* inputs to the first input_dim columns and call K or Kdiag with
\* presliced=True, get what K and Kdiag give on the inputs as they are, and
\* no child's slice fails for the narrowing; children with index lists,
\* default ranges and slices with a non-zero start alike.  The inputs have
\* the combination's input_dim columns or more.
C21_NarrowingKeepsChildrenColumns ==
  (IsCombination(kern) /\ op \in {"eKdiag", "eKxz", "eKzxKxz"} /\ ~Refused
     /\ NCols(X) >= kern.input_dim) =>
    /\ \A c \in ColumnsRead(kern, NCols(X)) : c < kern.input_dim
    /\ (op = "eKxz" /\ IsOk(K(kern, X, X2, "omitted"))) =>
         /\ IsOk(out)
         /\ out.val.value = K(kern, X, X2, "omitted").val
    /\ (op = "eKdiag" /\ IsOk(Kdiag(kern, X, "omitted"))) =>
         /\ IsOk(out)
         /\ out.val.value = Kdiag(kern, X, "omitted").val

=============================================================================
